---- MODULE Spec2Model ----
(***************************************************************************)
(* A model of to-trash (tt): Trash::send_to_trash and the operations it    *)
(* calls (write_info_file, move_file / copy_and_remove,                    *)
(* update_directory_sizes / copy_directorysizes, build_unique_file_name,   *)
(* directory_size), run against a small file system.                      *)
(*                                                                         *)
(* File names and file contents are sequences of bytes (numbers 0..255).   *)
(* Every system call of an invocation is one step, so that the states      *)
(* between two system calls (what a concurrent invocation, a reader or a   *)
(* crash would find on disk) are states of the model.  A system call may   *)
(* fail for a reason outside the program (an I/O error): each step draws   *)
(* its outcome `ok` from BOOLEAN and takes the code's error path on FALSE. *)
(***************************************************************************)
EXTENDS Integers, Sequences, FiniteSets, TLC

\* How many send_to_trash invocations are started in one behaviour.
MaxCalls == 2
\* The largest value the wall clock (whole seconds since the epoch) takes.
MaxClock == 1

\* The concurrent invocations (independent runs of the program).
Procs == {1, 2}

----------------------------------------------------------------------------
(* Bytes and names *)

\* "x" and "y": the base names of the sources.
NameX == <<120>>
NameY == <<121>>

\* ".trashinfo", pushed onto the name by build_info_file_path.
TrashInfoExt == <<46, 116, 114, 97, 115, 104, 105, 110, 102, 111>>

\* ".tmp": the prefix tempfile gives a NamedTempFile's name.
TmpPrefix == <<46, 116, 109, 112>>

\* "16384 15803468 Documents\n": the ledger line of the repository's test.
FIRST_LINE ==
    <<49, 54, 51, 56, 52, 32, 49, 53, 56, 48, 51, 52, 54, 56, 32,
      68, 111, 99, 117, 109, 101, 110, 116, 115, 10>>

\* The k-th value Uuid::new_v4().to_string() returns: digits, letters and
\* hyphens, never the same value twice.
Uuid(k) == <<48 + k, 45, 97 + k>>

\* A faulty variant of build_unique_file_name that puts a hyphen before the UUID.
build_unique_file_name_hyphen(path, uuid) == path \o <<45>> \o uuid

\* A faulty variant of build_unique_file_name that forgets the UUID.
build_unique_file_name_same(path, uuid) == path

\* fs.rs build_unique_file_name: the UUID is pushed onto the name as it is.
build_unique_file_name(path, uuid) == path \o uuid

\* info_file.rs build_info_file_path: the info file's name in $trash/info.
build_info_file_path(file_name) == file_name \o TrashInfoExt

\* The name of the NamedTempFile invocation p creates in $trash/files.
TmpName(p) == TmpPrefix \o <<48 + p>>

\* A faulty variant of IsAlphanumeric that leaves the percent sign as it is.
IsAlphanumericOrPercent(b) ==
    (b \in 48..57) \/ (b \in 65..90) \/ (b \in 97..122) \/ b = 37

\* percent_encoding's NON_ALPHANUMERIC leaves only ASCII letters and digits.
IsAlphanumeric(b) == (b \in 48..57) \/ (b \in 65..90) \/ (b \in 97..122)

\* One upper-case hexadecimal digit.
HexDigit(d) == IF d < 10 THEN 48 + d ELSE 55 + d

RECURSIVE percent_encode(_)
\* percent_encode(bytes, NON_ALPHANUMERIC): %XX for every other byte.
percent_encode(bytes) ==
    IF bytes = <<>> THEN <<>>
    ELSE LET b == Head(bytes)
         IN  (IF IsAlphanumeric(b) THEN <<b>>
              ELSE <<37, HexDigit(b \div 16), HexDigit(b % 16)>>)
             \o percent_encode(Tail(bytes))

RECURSIVE Decimal(_)
\* Display of a u64: its decimal digits.
Decimal(n) ==
    IF n < 10 THEN <<48 + n>> ELSE Decimal(n \div 10) \o <<48 + (n % 10)>>

\* directorysizes.rs: writeln!(temp, "{directory_size} {deletion_time} {percent_encoded}").
LedgerLine(size, secs, name) ==
    Decimal(size) \o <<32>> \o Decimal(secs) \o <<32>>
        \o percent_encode(name) \o <<10>>

----------------------------------------------------------------------------
(* The file system *)

\* A node of the file system: its kind, its inode, a file's bytes (a
\* symlink's target), a directory's entries, and what lstat tells besides:
\* the permission bits and the times of the last modification and access
\* (seconds since the epoch; the clock of a run starts at 0, and what was
\* there before the run has earlier times).
NoFile ==
    [kind |-> "none", ino |-> 0, data |-> <<>>, tree |-> <<>>,
     mode |-> 0, mtime |-> 0, atime |-> 0]

\* A file as File::create or NamedTempFile makes it.
RegularFile(ino, data) ==
    [kind |-> "file", ino |-> ino, data |-> data, tree |-> <<>>,
     mode |-> 384, mtime |-> 0, atime |-> 0]
Directory(ino, tree) ==
    [kind |-> "dir", ino |-> ino, data |-> <<>>, tree |-> tree,
     mode |-> 493, mtime |-> 0, atime |-> 0]
Symlink(target) ==
    [kind |-> "symlink", ino |-> 0, data |-> target, tree |-> <<>>,
     mode |-> 511, mtime |-> 0, atime |-> 0]

\* `node` with the permission bits `mode`, last modified at `mtime` and last
\* accessed at `atime`.
Stat(node, mode, mtime, atime) ==
    [node EXCEPT !.mode = mode, !.mtime = mtime, !.atime = atime]

\* The paths send_to_trash is called with: <<parent directory, base name>>.
\* /a/x and /b/x are regular files, /c/x and /e/y are directories.
Paths == {<<"a", NameX>>, <<"b", NameX>>, <<"c", NameX>>, <<"e", NameY>>}

\* The filesystem root, a path with no final component.
RootPath == <<"/">>

\* What send_to_trash can be called with.
Arguments == Paths \cup {RootPath}

\* What the paths name before anything is trashed.
InitialNode(path) ==
    CASE path = <<"a", NameX>> -> Stat(RegularFile(1, <<1>>), 420, -2, -1)
      [] path = <<"b", NameX>> -> Stat(RegularFile(2, <<2, 2>>), 292, -1, -1)
      [] path = <<"c", NameX>> ->
            Stat(Directory(3,
                    << RegularFile(0, <<7, 7, 7, 7, 7, 7, 7>>),
                       Directory(0, << RegularFile(0, <<5, 5, 5, 5, 5>>),
                                       Symlink(<<46, 46>>) >>),
                       Symlink(<<46>>) >>),
                 493, -1, -1)
      [] path = RootPath -> Stat(Directory(0, <<>>), 493, -2, -2)
      [] OTHER -> Stat(Directory(4, <<>>), 448, -2, -2)

\* Path::canonicalize of an argument: the absolute path of the source.
\* /a is /home/u, /b is /root, /c is /mnt/usb and /e is /home/v.
canonicalize(path) ==
    (CASE path[1] = "a" -> <<"home", "u">>
       [] path[1] = "b" -> <<"root">>
       [] path[1] = "c" -> <<"mnt", "usb">>
       [] OTHER         -> <<"home", "v">>)
    \o <<IF path[2] = NameX THEN "x" ELSE "y">>

\* Path::starts_with: `prefix` is `path` cut after some of its components.
starts_with(path, prefix) ==
    /\ Len(prefix) <= Len(path)
    /\ SubSeq(path, 1, Len(prefix)) = prefix

\* What a node holds, whatever its inode.
Content(node) == <<node.kind, node.data, node.tree>>

\* Path::file_name: the final component, or None (here the empty name,
\* which no file has) for a path that has none.
file_name(path) == IF Len(path) = 2 THEN path[2] ELSE <<>>

\* light_fs.rs, lstat().size() of a node.
lstat_size(node) == Len(node.data)

\* What the absolute path a symlink holds names, its own symlinks followed:
\* the directory /c/x, the file /a/x, or nothing (a dangling link, or a
\* link to itself, which is ELOOP).  The relative targets are those of
\* links within a tree.
Resolve(target) ==
    CASE target = <<47, 99, 47, 120>> -> InitialNode(<<"c", NameX>>)
      [] target = <<47, 97, 47, 120>> -> InitialNode(<<"a", NameX>>)
      [] OTHER -> NoFile

\* What stat(2) sees at a node: a symlink is followed.
Followed(node) == IF node.kind = "symlink" THEN Resolve(node.data) ELSE node

\* A faulty variant of is_dir that does not follow a symlink.
is_dir_lstat(node) == node.kind = "dir"

\* std's Path::is_dir, which follows symlinks, and fs::read_dir, which
\* opens the directory a symlink leads to.
is_dir(node) == Followed(node).kind = "dir"
read_dir(node) == Followed(node).tree

\* light_fs.rs 14-22, path_is_directory and path_is_regular_file: by
\* lstat, no symlink followed.
path_is_directory(node) == node.kind = "dir"
path_is_regular_file(node) == node.kind = "file"

RECURSIVE SumSizes(_)
RECURSIVE directory_size(_)
\* fs.rs 73-92, directory_size: of a directory the sum over its entries,
\* of anything else its lstat size.
directory_size(node) ==
    IF is_dir(node) THEN SumSizes(read_dir(node)) ELSE lstat_size(node)
\* The loop of directory_size over the entries of read_dir: regular files
\* by lstat, directories by recursion, nothing else counted.
SumSizes(entries) ==
    IF entries = <<>> THEN 0
    ELSE LET e == Head(entries)
         IN  (IF path_is_regular_file(e) THEN lstat_size(e)
              ELSE IF path_is_directory(e) THEN directory_size(e)
              ELSE 0) + SumSizes(Tail(entries))

\* The most entries a directory has and the most bytes a file has, of the
\* trees directory_size is applied to on its own.
MaxEntries == 2
MaxFileSize == 2

\* The sequences of at most n elements of S.
SeqsUpTo(S, n) == UNION {[1..k -> S] : k \in 0..n}

\* What directory_size is applied to on its own: the trees of regular
\* files, of symlinks to the directory they are in and to its parent, and
\* of directories of at most one such entry; the regular files; and the
\* symlinks to the directory /c/x, to the file /a/x, to nothing and to
\* themselves (/l).
SizeFiles == {RegularFile(0, [i \in 1..n |-> 1]) : n \in 0..MaxFileSize}
SizeLinks == {Symlink(<<46>>), Symlink(<<46, 46>>)}
SizeSubdirs ==
    {Directory(0, t) : t \in SeqsUpTo(SizeFiles \cup SizeLinks, 1)}
SizeTrees ==
    {Directory(0, t) :
        t \in SeqsUpTo(SizeFiles \cup SizeLinks \cup SizeSubdirs, MaxEntries)}
SizeInputs ==
    SizeTrees \cup SizeFiles
        \cup {Symlink(<<47, 99, 47, 120>>), Symlink(<<47, 97, 47, 120>>),
               Symlink(<<47, 110>>), Symlink(<<47, 108>>)}

\* A directory listing (name -> node) with `name` bound to `node`.
Put(dir, name, node) ==
    [n \in (DOMAIN dir) \cup {name} |-> IF n = name THEN node ELSE dir[n]]

\* A directory listing without `name`.
Unlink(dir, name) == [n \in (DOMAIN dir) \ {name} |-> dir[n]]

\* What `name` names in a listing.
Lookup(dir, name) == IF name \in DOMAIN dir THEN dir[name] ELSE NoFile

\* What is at the ledger path: nothing, a regular file with content, or a
\* directory (tests.rs 24 makes $trash/directorysizes with create_dir).
NoLedger == [exists |-> FALSE, dir |-> FALSE, data |-> <<>>]
Ledger(data) == [exists |-> TRUE, dir |-> FALSE, data |-> data]
DirLedger == [exists |-> TRUE, dir |-> TRUE, data |-> <<>>]

\* An info file: the invocation whose File::create made it (its inode), the
\* lines written so far, and whether sync_all was done.
InfoFile(ino, lines, synced) == [ino |-> ino, lines |-> lines, synced |-> synced]

\* strftime's two-digit fields.
TwoDigits(n) == <<48 + (n \div 10), 48 + (n % 10)>>

\* ffi/time.rs, strftime with "%Y-%m-%dT%T", cut to its "Tmm:ss" end: the
\* model's clock stays within the first hour of the epoch, in UTC.
strftime(t) == <<84>> \o TwoDigits((t \div 60) % 60) \o <<58>> \o TwoDigits(t % 60)

\* ffi/time.rs format_timestamp.  `time(&mut timestamp)` stores the current
\* time in `timestamp` and returns it, so what is formatted is the clock at
\* the time of the call (`clk`), whatever `timestamp` was given.
format_timestamp(timestamp, clk) == strftime(clk)

\* info_file.rs write_info_file: the three lines of an info file.
InfoLines(original_path, rfc3339) ==
    << [key |-> "[Trash Info]", path |-> <<>>, date |-> <<>>],
       [key |-> "Path", path |-> original_path, date |-> <<>>],
       [key |-> "DeletionDate", path |-> <<>>, date |-> rfc3339] >>

----------------------------------------------------------------------------
(* The state *)

VARIABLES
    origin,     \* what each path of Paths names outside the trash
    files,      \* $trash/files: name -> node
    info,       \* $trash/info: name -> info file
    ledger,     \* $trash/directorysizes
    clock,      \* the wall clock, whole seconds since the epoch
    pc,         \* where each invocation stands in send_to_trash
    arg,        \* to_be_removed
    now,        \* `now`, as_secs
    dirSize,    \* `directory_size`: an Option<u64>
    fileName,   \* `file_name`: the name chosen for $trash/files
    stamp,      \* `rfc3339` of write_info_file
    fd,         \* the inode of the file the invocation holds open for writing
    existed,    \* what file_in_trash.exists() returned
    moveErr,    \* `err` of the failed move_file
    ret,        \* what the last call of the invocation returned
    calls,      \* how many calls were started
    issued,     \* how many UUIDs Uuid::new_v4 has returned
    inodes,     \* how many inodes there are
    ledger0,    \* history: the ledger when the call started
    files0,     \* history: $trash/files when the call started
    copied,     \* history: what copy_directorysizes copied into the temp file
    faulted,    \* history: a system call of the call failed by an I/O error
    succeeded,  \* history: the paths whose call returned Ok
    lastMover,  \* history: the invocation that last relocated into files
    lastLedger  \* history: the invocation that last renamed over the ledger

\* The mount table and its probing (ffi/mount_point.rs, main.rs).
VARIABLES
    mtab,           \* /etc/mtab: the entries getmntent returns, in order
    mntent,         \* the stream of setmntent: 0 not open, k the next entry
    mount_points,   \* `mount_points`: the BinaryHeap of probe_mount_points_in
    probed,         \* what probe_mount_points_in returned
    found           \* what find_mount_point_of_file returned, and for what

\* The driver (main.rs) and the directories of the trashes it chooses from.
VARIABLES
    HOME,       \* the user's home directory (HOME_DIR)
    dirs,       \* the directories there are in and around the trashes
    dirs0,      \* history: `dirs` when the program started
    argv,       \* the argument the driver is at
    file,       \* `file`: the argument made canonical
    trash,      \* the Trash send_to_trash is called on
    dpc,        \* where the driver stands
    exit,       \* the exit status of the program, -1 while it runs
    dfault,     \* history: a step of the driver failed by an I/O error
    args,       \* the arguments env::args_os() has yet to yield
    given,      \* history: the arguments the driver came to, in order
    shelf       \* files, info and ledger of the trashes it left behind

\* The functions of the program that are applied on their own.
VARIABLES
    applied     \* the last application: the function, its input, its output

disk   == <<origin, files, info, ledger>>
locals == <<arg, now, dirSize, fileName, existed, stamp, fd, moveErr>>
hist   == <<ledger0, files0, copied, faulted, succeeded, lastMover, lastLedger>>
mounts == <<mtab, mntent, mount_points, probed, found>>
argsv  == <<args, given, shelf>>
driver == <<HOME, dirs, dirs0, argv, file, trash, dpc, exit, dfault, argsv>>
trashv == <<disk, clock, pc, locals, ret, calls, issued, inodes, hist>>
vars   == <<trashv, mounts, driver, applied>>

\* No function was applied yet; `fn` was applied to `input` and returned
\* `output`.
NotApplied == [fn |-> "none", input |-> <<>>, output |-> <<>>]
Applied(fn, input, output) == [fn |-> fn, input |-> input, output |-> output]

None   == [some |-> FALSE, val |-> 0]
Some(v) == [some |-> TRUE, val |-> v]

NoResult == [kind |-> "none", name |-> <<>>, err |-> "none"]
Ok(name) == [kind |-> "ok", name |-> name, err |-> "none"]
Err(e)   == [kind |-> "err", name |-> <<>>, err |-> e]

NoPath == <<"", <<>>>>

\* The trash and the sources before the first call.
InitTrash ==
    /\ applied = NotApplied
    /\ origin = [path \in Arguments |-> InitialNode(path)]
    /\ files = <<>>
    /\ info = <<>>
    /\ ledger \in {NoLedger, Ledger(FIRST_LINE), DirLedger}
    /\ clock = 0
    /\ pc = [p \in Procs |-> "idle"]
    /\ arg = [p \in Procs |-> NoPath]
    /\ now = [p \in Procs |-> 0]
    /\ dirSize = [p \in Procs |-> None]
    /\ fileName = [p \in Procs |-> <<>>]
    /\ stamp = [p \in Procs |-> <<>>]
    /\ fd = [p \in Procs |-> 0]
    /\ existed = [p \in Procs |-> FALSE]
    /\ moveErr = [p \in Procs |-> "none"]
    /\ ret = [p \in Procs |-> NoResult]
    /\ calls = 0
    /\ issued = 0
    /\ inodes = Cardinality(Paths)
    /\ ledger0 = [p \in Procs |-> NoLedger]
    /\ files0 = [p \in Procs |-> <<>>]
    /\ copied = [p \in Procs |-> <<>>]
    /\ faulted = [p \in Procs |-> FALSE]
    /\ succeeded = {}
    /\ lastMover = 0
    /\ lastLedger = 0

\* A mount point: MountPoint { fs_name, fs_path_prefix }.  A path is the
\* sequence of its components, "/" the empty sequence.
MountPoint(fs_name, fs_path_prefix) ==
    [fs_name |-> fs_name, fs_path_prefix |-> fs_path_prefix]

\* Nothing was probed or looked up yet.
NotProbed == [kind |-> "none", list |-> <<>>]
NotFound  == [kind |-> "none", path |-> <<>>, mount |-> MountPoint("", <<>>)]

\* The mount table is `table`, not yet opened.
InitMounts(table) ==
    /\ mtab = table
    /\ mntent = 0
    /\ mount_points = <<>>
    /\ probed = NotProbed
    /\ found = NotFound

\* trash.rs 34-46, Trash::from_root: the three paths of a trash.
from_root(root) ==
    [files |-> root \o <<"files">>,
     directory_sizes |-> root \o <<"directorysizes">>,
     info |-> root \o <<"info">>]

\* home_dir.rs 21-27, home_trash_path, XDG_DATA_HOME not being set.
home_trash_path(home_dir) == home_dir \o <<".local", "share", "Trash">>

\* main.rs 34-35, HOME_TRASH.
HOME_TRASH == from_root(home_trash_path(HOME))

\* The two directories of a trash.
TrashDirs(t) == {t.files, t.info}

\* The driver stands at `at` with `n` arguments to come: the home is `home`,
\* the directories are `ds`.
InitDriver(home, ds, at, n) ==
    /\ HOME = home
    /\ dirs = ds
    /\ dirs0 = ds
    /\ argv = NoPath
    /\ file = <<>>
    /\ trash = from_root(home_trash_path(home))
    /\ dpc = at
    /\ exit = -1
    /\ dfault = FALSE
    /\ args \in [1..n -> Paths]
    /\ given = <<>>
    /\ shelf = <<>>

\* The home trash of /home/u, its directories made, on a system with one
\* file system, mounted at "/": what the calls of send_to_trash are made on
\* when the driver is left out.
Init ==
    /\ InitTrash
    /\ InitMounts(<<MountPoint("sda2", <<>>)>>)
    /\ InitDriver(<<"home", "u">>,
                  TrashDirs(from_root(home_trash_path(<<"home", "u">>))),
                  "send", 0)

\* The outcomes a system call can have: it can fail by an I/O error whenever
\* it could succeed, and it fails when `can` is false.
Outcomes(can) == IF can THEN {TRUE, FALSE} ELSE {FALSE}

\* send_to_trash returns `r`.
Return(p, r) ==
    /\ pc' = [pc EXCEPT ![p] = "idle"]
    /\ ret' = [ret EXCEPT ![p] = r]
    /\ succeeded' = IF r.kind = "ok" THEN succeeded \cup {arg[p]} ELSE succeeded

\* send_to_trash goes on to its next system call.
Goto(p, label) ==
    /\ pc' = [pc EXCEPT ![p] = label]
    /\ UNCHANGED <<ret, succeeded>>

\* The call's history records an I/O error.
Fault(p, can, ok) == faulted' = [faulted EXCEPT ![p] = @ \/ (can /\ ~ok)]

\* The clock when it is read next: it never goes back.
LaterTimes == clock..MaxClock

----------------------------------------------------------------------------
(* Trash::send_to_trash, system call by system call *)

\* trash.rs 92-107: the call starts.  `now` is read from the clock (an error
\* if the clock is before the epoch), a directory's size is computed (an
\* error if a read_dir or lstat fails), the base name is taken.  Concurrent
\* invocations are given different paths.
Call(p) ==
    /\ pc[p] = "idle"
    /\ \E path \in Arguments, outcome \in {"ok", "clock", "size"}, t \in LaterTimes :
        /\ \A q \in Procs \ {p} : pc[q] = "idle" \/ arg[q] # path
        /\ outcome = "size" => is_dir(origin[path])
        /\ clock' = t
        /\ arg' = [arg EXCEPT ![p] = path]
        /\ now' = [now EXCEPT ![p] = IF outcome = "clock" THEN 0 ELSE t]
        /\ dirSize' = [dirSize EXCEPT ![p] =
                IF outcome = "ok" /\ is_dir(origin[path])
                THEN Some(directory_size(origin[path])) ELSE None]
        /\ fileName' = [fileName EXCEPT ![p] = file_name(path)]
        /\ faulted' = [faulted EXCEPT ![p] = outcome # "ok"]
        /\ CASE outcome = "clock" -> Return(p, Err("SystemTime"))
             [] outcome = "size"  -> Return(p, Err("Io:directory_size"))
             [] file_name(path) = <<>> ->
                    Return(p, Err("FailedToObtainFileName"))
             [] OTHER             -> Goto(p, "exists")
    /\ stamp' = [stamp EXCEPT ![p] = <<>>]
    /\ fd' = [fd EXCEPT ![p] = 0]
    /\ existed' = [existed EXCEPT ![p] = FALSE]
    /\ moveErr' = [moveErr EXCEPT ![p] = "none"]
    /\ calls' = calls + 1
    /\ ledger0' = [ledger0 EXCEPT ![p] = ledger]
    /\ files0' = [files0 EXCEPT ![p] = files]
    /\ copied' = [copied EXCEPT ![p] = <<>>]
    /\ UNCHANGED <<disk, issued, inodes, lastMover, lastLedger>>

\* main.rs 53-61: one run of the program calls send_to_trash for one
\* argument after the other.
Begin(p) == calls < MaxCalls /\ Call(p) /\ UNCHANGED <<mounts, driver, applied>>

\* A run of the program with one argument: a single call.
BeginOnce(p) ==
    ret[p] = NoResult /\ Call(p) /\ UNCHANGED <<mounts, driver, applied>>

\* trash.rs 110-121: file_in_trash.exists() decides between the base name
\* and build_unique_file_name.
ChooseName(p) ==
    /\ pc[p] = "exists"
    /\ UNCHANGED <<mounts, driver, applied>>
    /\ existed' = [existed EXCEPT ![p] = fileName[p] \in DOMAIN files]
    /\ IF fileName[p] \in DOMAIN files
       THEN /\ fileName' = [fileName EXCEPT ![p] =
                    build_unique_file_name(fileName[p], Uuid(issued + 1))]
            /\ issued' = issued + 1
       ELSE UNCHANGED <<fileName, issued>>
    /\ Goto(p, "create_info")
    /\ UNCHANGED <<disk, clock, arg, now, dirSize, stamp, fd, moveErr, calls,
                   inodes, hist>>

\* A faulty variant of WriteInfoFailed in which send_to_trash goes on to the
\* move although write_info_file failed.
WriteInfoFailedIgnored(p, e) == Goto(p, "rename")

\* trash.rs 128, the `?` after write_info_file: its error is the error of
\* send_to_trash.
WriteInfoFailed(p, e) == Return(p, Err(e))

\* info_file.rs 54-62: format_timestamp, then File::create of the info file
\* (an existing file is truncated and keeps its inode).
CreateInfo(p) ==
    /\ pc[p] = "create_info"
    /\ UNCHANGED <<mounts, driver, applied>>
    /\ \E ok \in BOOLEAN, t \in LaterTimes :
        LET path  == build_info_file_path(fileName[p])
            fresh == path \notin DOMAIN info
            ino   == IF fresh THEN inodes + 1 ELSE info[path].ino
        IN  /\ Fault(p, TRUE, ok)
            /\ clock' = t
            /\ stamp' = [stamp EXCEPT ![p] = format_timestamp(now[p], t)]
            /\ IF ok
               THEN /\ info' = Put(info, path, InfoFile(ino, <<>>, FALSE))
                    /\ fd' = [fd EXCEPT ![p] = ino]
                    /\ inodes' = IF fresh THEN inodes + 1 ELSE inodes
                    /\ Goto(p, "write_info")
               ELSE /\ UNCHANGED <<info, fd, inodes>>
                    /\ WriteInfoFailed(p, "Io:create_info")
    /\ UNCHANGED <<origin, files, ledger, arg, now, dirSize, fileName,
                   existed, moveErr, calls, issued, ledger0, files0, copied, lastMover,
                   lastLedger>>

\* The info directory after the invocation wrote `lines` (all its lines so
\* far) through its open file: seen only while the path still names the
\* inode that was opened.
WriteThroughFd(p, lines, synced) ==
    LET path == build_info_file_path(fileName[p])
    IN  IF path \in DOMAIN info /\ info[path].ino = fd[p]
        THEN Put(info, path, InfoFile(fd[p], lines, synced))
        ELSE info

\* info_file.rs 64-67: the three writeln!.  A failed write leaves the lines
\* written before it.
WriteInfo(p) ==
    /\ pc[p] = "write_info"
    /\ UNCHANGED <<mounts, driver, applied>>
    /\ \E ok \in BOOLEAN :
        LET lines == InfoLines(arg[p], stamp[p])
        IN  /\ Fault(p, TRUE, ok)
            /\ IF ok
               THEN /\ info' = WriteThroughFd(p, lines, FALSE)
                    /\ Goto(p, "sync_info")
               ELSE /\ \E k \in 0..(Len(lines) - 1) :
                         info' = WriteThroughFd(p, SubSeq(lines, 1, k), FALSE)
                    /\ WriteInfoFailed(p, "Io:write_info")
    /\ UNCHANGED <<origin, files, ledger, clock, locals, calls, issued, inodes,
                   ledger0, files0, copied, lastMover, lastLedger>>

\* A faulty variant of sync_all that returns without syncing.
sync_all_skipped(info_file) == info_file

\* info_file.rs 69: info_file.sync_all().
sync_all(info_file) == [info_file EXCEPT !.synced = TRUE]

\* info_file.rs 69-71: sync_all, and write_info_file returns the path.
SyncInfo(p) ==
    /\ pc[p] = "sync_info"
    /\ UNCHANGED <<mounts, driver, applied>>
    /\ \E ok \in BOOLEAN :
        LET path == build_info_file_path(fileName[p])
        IN  /\ Fault(p, TRUE, ok)
            /\ IF ok
               THEN /\ info' = IF path \in DOMAIN info /\ info[path].ino = fd[p]
                               THEN Put(info, path, sync_all(info[path]))
                               ELSE info
                    /\ Goto(p, "rename")
               ELSE /\ UNCHANGED info
                    /\ WriteInfoFailed(p, "Io:sync_info")
    /\ UNCHANGED <<origin, files, ledger, clock, locals, calls, issued, inodes,
                   ledger0, files0, copied, lastMover, lastLedger>>

\* rename(2) of `node` onto what `dest` names: onto nothing, a file onto a
\* file, a directory onto an empty directory.
CanRename(node, dest) ==
    /\ node.kind # "none"
    /\ \/ dest.kind = "none"
       \/ node.kind # "dir" /\ dest.kind # "dir"
       \/ node.kind = "dir" /\ dest.kind = "dir" /\ dest.tree = <<>>

\* A faulty variant of Moved that updates the ledger for every item.
MovedUpdating(p) == Goto(p, "tmp_create")

\* trash.rs 143-156, after the move: a directory goes on to
\* update_directory_sizes, anything else returns its name.
Moved(p) ==
    IF dirSize[p].some THEN Goto(p, "tmp_create") ELSE Return(p, Ok(fileName[p]))

\* The mount point a path is on: the longest mounted prefix of the path.
MountOf(path) ==
    LET on == {k \in 1..Len(mtab) : starts_with(path, mtab[k].fs_path_prefix)}
    IN  CHOOSE k \in on :
            \A j \in on : Len(mtab[j].fs_path_prefix)
                            <= Len(mtab[k].fs_path_prefix)

\* The source of the call and $trash/files are on different file systems:
\* rename(2) fails with EXDEV.
CrossDevice(p) == MountOf(canonicalize(arg[p])) # MountOf(trash.files)

\* fs.rs 31: fs::rename(from, to).  A failure (for whatever reason) leads to
\* copy_and_remove.
Rename(p) ==
    /\ pc[p] = "rename"
    /\ UNCHANGED <<mounts, driver, applied>>
    /\ LET node == origin[arg[p]]
           can  == /\ CanRename(node, Lookup(files, fileName[p]))
                   /\ ~CrossDevice(p)
       IN  \E ok \in Outcomes(can) :
            /\ Fault(p, can, ok)
            /\ IF ok
               THEN /\ origin' = [origin EXCEPT ![arg[p]] = NoFile]
                    /\ files' = Put(files, fileName[p], node)
                    /\ lastMover' = p
                    /\ Moved(p)
               ELSE /\ UNCHANGED <<origin, files, lastMover>>
                    /\ Goto(p, "copy")
    /\ UNCHANGED <<info, ledger, clock, locals, calls, issued, inodes,
                   ledger0, files0, copied, lastLedger>>

\* Bytes written at offset 0 over a file's bytes.
Overwrite(old, new) ==
    IF Len(new) >= Len(old) THEN new
    ELSE new \o SubSeq(old, Len(new) + 1, Len(old))

\* A faulty variant of CopyFailed in which copy_and_remove goes on to remove
\* the source although the copy failed.
CopyFailedIgnored(p) ==
    /\ UNCHANGED moveErr
    /\ Goto(p, "remove_src")

\* fs.rs 45, the `?` after fs::copy: its error is the error of move_file,
\* and the source is not removed.
CopyFailed(p) ==
    /\ moveErr' = [moveErr EXCEPT ![p] = "Io:copy"]
    /\ Goto(p, "rollback")

\* fs.rs 45, std::fs::copy(from, to), its opens: the source must be a
\* regular file; the destination is created, or truncated if it is a file,
\* and is given the source's permission bits.  Its times are those of the
\* copy, not the source's.
CopyOpen(p) ==
    /\ pc[p] = "copy"
    /\ UNCHANGED <<mounts, driver, applied>>
    /\ LET node == origin[arg[p]]
           dest == Lookup(files, fileName[p])
           can  == node.kind = "file" /\ dest.kind \in {"none", "file"}
           ino  == IF dest.kind = "file" THEN dest.ino ELSE inodes + 1
       IN  \E ok \in Outcomes(can) :
            /\ Fault(p, can, ok)
            /\ IF ok
               THEN /\ files' = Put(files, fileName[p],
                                     Stat(RegularFile(ino, <<>>), node.mode,
                                          clock,
                                          IF dest.kind = "file" THEN dest.atime
                                          ELSE clock))
                    /\ fd' = [fd EXCEPT ![p] = ino]
                    /\ inodes' = IF dest.kind = "file" THEN inodes ELSE inodes + 1
                    /\ lastMover' = p
                    /\ UNCHANGED moveErr
                    /\ Goto(p, "copy_data")
               ELSE /\ UNCHANGED <<files, fd, inodes, lastMover>>
                    /\ CopyFailed(p)
    /\ UNCHANGED <<origin, info, ledger, clock, arg, now, dirSize, fileName,
                   existed, stamp, calls, issued, ledger0, files0, copied, lastLedger>>

\* fs.rs 45, std::fs::copy(from, to), its writes: the source's bytes go
\* into the inode that was opened.  A failure leaves the destination as it is.
CopyData(p) ==
    /\ pc[p] = "copy_data"
    /\ UNCHANGED <<mounts, driver, applied>>
    /\ LET dest == Lookup(files, fileName[p])
       IN  \E ok \in BOOLEAN :
            /\ Fault(p, TRUE, ok)
            /\ IF ok
               THEN /\ files' = IF dest.kind = "file" /\ dest.ino = fd[p]
                                THEN Put(files, fileName[p],
                                         Stat(RegularFile(dest.ino,
                                                Overwrite(dest.data,
                                                          origin[arg[p]].data)),
                                              dest.mode, clock, dest.atime))
                                ELSE files
                    /\ UNCHANGED moveErr
                    /\ Goto(p, "remove_src")
               ELSE /\ UNCHANGED files
                    /\ CopyFailed(p)
    /\ UNCHANGED <<origin, info, ledger, clock, arg, now, dirSize, fileName,
                   existed, stamp, fd, calls, issued, inodes, ledger0, files0, copied,
                   lastMover, lastLedger>>

\* fs.rs 46-50: remove_dir_all or remove_file of the source.
RemoveSource(p) ==
    /\ pc[p] = "remove_src"
    /\ UNCHANGED <<mounts, driver, applied>>
    /\ LET can == origin[arg[p]].kind # "none"
       IN  \E ok \in Outcomes(can) :
            /\ Fault(p, can, ok)
            /\ IF ok
               THEN /\ origin' = [origin EXCEPT ![arg[p]] = NoFile]
                    /\ UNCHANGED moveErr
                    /\ Moved(p)
               ELSE /\ UNCHANGED origin
                    /\ moveErr' = [moveErr EXCEPT ![p] = "Io:remove"]
                    /\ Goto(p, "rollback")
    /\ UNCHANGED <<files, info, ledger, clock, arg, now, dirSize, fileName,
                   existed, stamp, fd, calls, issued, inodes, ledger0, files0, copied,
                   lastMover, lastLedger>>

\* trash.rs 133-139: `fs::remove_file(info_file_path)?` returns its own error
\* when it fails; otherwise the move's error `err` is returned.
RollbackResult(removed, err) == IF removed THEN Err(err) ELSE Err("Io:remove_info")

\* A faulty variant of remove_file that removes nothing and reports success.
remove_file_skipped(dir, name) == dir

\* trash.rs 133: fs::remove_file(info_file_path).
remove_file(dir, name) == Unlink(dir, name)

\* trash.rs 131-140: move_file failed; the info file is removed.
Rollback(p) ==
    /\ pc[p] = "rollback"
    /\ UNCHANGED <<mounts, driver, applied>>
    /\ LET path == build_info_file_path(fileName[p])
           can  == path \in DOMAIN info
       IN  \E ok \in Outcomes(can) :
            /\ Fault(p, can, ok)
            /\ info' = IF ok THEN remove_file(info, path) ELSE info
            /\ Return(p, RollbackResult(ok, moveErr[p]))
    /\ UNCHANGED <<origin, files, ledger, clock, locals, calls, issued, inodes,
                   ledger0, files0, copied, lastMover, lastLedger>>

----------------------------------------------------------------------------
(* update_directory_sizes *)

\* A faulty variant of LineOf that names the source's base name, whatever
\* name was chosen.
LineOfBaseName(p) == LedgerLine(dirSize[p].val, now[p], file_name(arg[p]))

\* The line update_directory_sizes appends for the call of invocation p.
LineOf(p) == LedgerLine(dirSize[p].val, now[p], fileName[p])

\* What a failed step of update_directory_sizes leaves: the NamedTempFile is
\* dropped, which removes it, and send_to_trash returns the error.
DropTemp(p, e) ==
    /\ files' = Unlink(files, TmpName(p))
    /\ Return(p, Err(e))

\* fs.rs 57: NamedTempFile::new_in($trash/files).
CreateTemp(p) ==
    /\ pc[p] = "tmp_create"
    /\ UNCHANGED <<mounts, driver, applied>>
    /\ \E ok \in BOOLEAN :
        /\ Fault(p, TRUE, ok)
        /\ IF ok
           THEN /\ files' = Put(files, TmpName(p), RegularFile(inodes + 1, <<>>))
                /\ inodes' = inodes + 1
                /\ Goto(p, "tmp_copy")
           ELSE /\ UNCHANGED <<files, inodes>>
                /\ Return(p, Err("Io:tempfile"))
    /\ UNCHANGED <<origin, info, ledger, clock, locals, calls, issued,
                   ledger0, files0, copied, lastMover, lastLedger>>

\* A faulty variant of CopiedBytes that copies nothing.
CopiedBytesNone(led) == <<>>

\* What fs::copy puts into the temp file: the ledger's bytes.
CopiedBytes(led) == led.data

\* fs.rs 60: fs::copy($trash/directorysizes, temp).  There must be a ledger,
\* and it must be a file: fs::copy of a directory fails.
CopyLedger(p) ==
    /\ pc[p] = "tmp_copy"
    /\ UNCHANGED <<mounts, driver, applied>>
    /\ LET can == ledger.exists /\ ~ledger.dir
       IN  \E ok \in Outcomes(can) :
            /\ Fault(p, can, ok)
            /\ IF ok
               THEN /\ files' = Put(files, TmpName(p),
                            RegularFile(files[TmpName(p)].ino, CopiedBytes(ledger)))
                    /\ copied' = [copied EXCEPT ![p] = ledger.data]
                    /\ Goto(p, "tmp_append")
               ELSE /\ UNCHANGED copied
                    /\ DropTemp(p, "Io:copy_ledger")
    /\ UNCHANGED <<origin, info, ledger, clock, locals, calls, issued, inodes,
                   ledger0, files0, lastMover, lastLedger>>

\* A faulty variant of VisibleLedger in which the temp file is the ledger itself.
VisibleLedgerSameFile(led, temp) == Ledger(temp)

\* What the ledger path shows after a write to the temp file: what it showed
\* before, the temp file being a copy in a file of its own.
VisibleLedger(led, temp) == led

\* How many bytes of the line the first write(2) of writeln! takes: the
\* size field.
FirstWrite(p) == Len(Decimal(dirSize[p].val))

\* directorysizes.rs 40-43: the temp file is opened for appending and
\* writeln! starts writing the line, piece by piece.
AppendStart(p) ==
    /\ pc[p] = "tmp_append"
    /\ UNCHANGED <<mounts, driver, applied>>
    /\ \E ok \in BOOLEAN :
        /\ Fault(p, TRUE, ok)
        /\ IF ok
           THEN LET temp == files[TmpName(p)]
                    data == temp.data \o SubSeq(LineOf(p), 1, FirstWrite(p))
                IN  /\ files' = Put(files, TmpName(p), RegularFile(temp.ino, data))
                    /\ ledger' = VisibleLedger(ledger, data)
                    /\ Goto(p, "tmp_append_rest")
           ELSE /\ UNCHANGED ledger
                /\ DropTemp(p, "Io:open_temp")
    /\ UNCHANGED <<origin, info, clock, locals, calls, issued, inodes,
                   ledger0, files0, copied, lastMover, lastLedger>>

\* directorysizes.rs 43: writeln! writes the rest of the line.
AppendRest(p) ==
    /\ pc[p] = "tmp_append_rest"
    /\ UNCHANGED <<mounts, driver, applied>>
    /\ \E ok \in BOOLEAN :
        /\ Fault(p, TRUE, ok)
        /\ IF ok
           THEN LET temp == files[TmpName(p)]
                    line == LineOf(p)
                    data == temp.data \o SubSeq(line, FirstWrite(p) + 1, Len(line))
                IN  /\ files' = Put(files, TmpName(p), RegularFile(temp.ino, data))
                    /\ ledger' = VisibleLedger(ledger, data)
                    /\ Goto(p, "tmp_rename")
           ELSE /\ UNCHANGED ledger
                /\ DropTemp(p, "Io:write_temp")
    /\ UNCHANGED <<origin, info, clock, locals, calls, issued, inodes,
                   ledger0, files0, copied, lastMover, lastLedger>>

\* The last line of `data`, a sequence of lines each ended by a newline.
RECURSIVE LastLine(_)
LastLine(data) ==
    IF \E i \in 1..(Len(data) - 1) : data[i] = 10
    THEN LastLine(Tail(data))
    ELSE data

\* A faulty variant of RenamedLedger that merges: the temp file's new line is
\* appended to what the ledger holds at the time.
RenamedLedgerMerged(led, temp) == Ledger(led.data \o LastLine(temp))

\* directorysizes.rs 46: what the ledger path names after
\* fs::rename(temp, ledger): the temp file, whatever the ledger held.
RenamedLedger(led, temp) == Ledger(temp)

\* directorysizes.rs 46-48: fs::rename(temp, $trash/directorysizes), and
\* send_to_trash returns the name (trash.rs 156).
RenameLedger(p) ==
    /\ pc[p] = "tmp_rename"
    /\ UNCHANGED <<mounts, driver, applied>>
    /\ \E ok \in BOOLEAN :
        /\ Fault(p, TRUE, ok)
        /\ IF ok
           THEN /\ ledger' = RenamedLedger(ledger, files[TmpName(p)].data)
                /\ files' = Unlink(files, TmpName(p))
                /\ lastLedger' = p
                /\ Return(p, Ok(fileName[p]))
           ELSE /\ UNCHANGED <<ledger, lastLedger>>
                /\ DropTemp(p, "Io:rename_ledger")
    /\ UNCHANGED <<origin, info, clock, locals, calls, issued, inodes,
                   ledger0, files0, copied, lastMover>>

\* The steps of a call that has started.
Run(p) ==
    \/ ChooseName(p)
    \/ CreateInfo(p)
    \/ WriteInfo(p)
    \/ SyncInfo(p)
    \/ Rename(p)
    \/ CopyOpen(p)
    \/ CopyData(p)
    \/ RemoveSource(p)
    \/ Rollback(p)
    \/ CreateTemp(p)
    \/ CopyLedger(p)
    \/ AppendStart(p)
    \/ AppendRest(p)
    \/ RenameLedger(p)

----------------------------------------------------------------------------
(* The mount table: ffi/mount_point.rs *)

\* How many entries a mount table has at most.
MaxMounts == 3

\* The directories file systems are mounted on: "/", "/home", "/mnt",
\* "/run" and "/mnt/usb".
MountDirs == {<<>>, <<"home">>, <<"mnt">>, <<"run">>, <<"mnt", "usb">>}

\* The mnt_fsname of the k-th entry of a table.
FsName(k) == <<"sda2", "sdb1", "tmpfs", "proc", "sdc1">>[k]

\* The mount tables: up to MaxMounts entries, each mounted on one of
\* MountDirs (a directory can be mounted on more than once).
MountTables ==
    UNION { { [k \in 1..n |-> MountPoint(FsName(k), on[k])] :
                on \in [1..n -> MountDirs] } : n \in 0..MaxMounts }

\* as_os_str().len() of an absolute path: a "/" before every component, "/"
\* alone for the root.
RECURSIVE os_len(_)
os_len(path) ==
    IF path = <<>> THEN 1
    ELSE IF Len(path) = 1 THEN 1 + Len(path[1])
    ELSE 1 + Len(Head(path)) + os_len(Tail(path))

\* A faulty variant of contains that looks at nothing.
contains_anything(mount_point, path) == TRUE

\* mount_point.rs 29-31, MountPoint::contains.
contains(mount_point, path) == starts_with(path, mount_point.fs_path_prefix)

\* A faulty variant of cmp that orders by the length the other way round.
cmp_reversed(self, other) ==
    os_len(other.fs_path_prefix) - os_len(self.fs_path_prefix)

\* mount_point.rs 72-79, Ord for MountPoint: by the length of the prefix.
\* Negative for Less, 0 for Equal, positive for Greater.
cmp(self, other) ==
    os_len(self.fs_path_prefix) - os_len(other.fs_path_prefix)

\* The order of Reverse<MountPoint>, what the heap holds: a <= b, a < b.
ReverseLe(a, b) == cmp(b, a) <= 0
ReverseLt(a, b) == cmp(b, a) < 0

\* The element at index i of a vector (from 0), and the vector with e there.
At(v, i) == v[i + 1]
SetAt(v, i, e) == [v EXCEPT ![i + 1] = e]

\* BinaryHeap::sift_up: the hole at `pos` moves up while the element `e` is
\* greater than the hole's parent.
RECURSIVE sift_up(_, _, _)
sift_up(v, pos, e) ==
    IF pos > 0
    THEN LET parent == (pos - 1) \div 2
         IN  IF ReverseLe(e, At(v, parent)) THEN SetAt(v, pos, e)
             ELSE sift_up(SetAt(v, pos, At(v, parent)), parent, e)
    ELSE SetAt(v, pos, e)

\* mount_point.rs 117, mount_points.push(Reverse(mount_point)).
push(v, e) == sift_up(Append(v, e), Len(v), e)

\* BinaryHeap::sift_down_range(pos, end): the hole moves down to its greater
\* child while the element `e` is less than it.
RECURSIVE sift_down_range(_, _, _, _, _)
sift_down_range(v, pos, end, e, child) ==
    IF child <= (IF end >= 2 THEN end - 2 ELSE 0)
    THEN LET c == IF ReverseLe(At(v, child), At(v, child + 1))
                  THEN child + 1 ELSE child
         IN  IF ReverseLe(At(v, c), e) THEN SetAt(v, pos, e)
             ELSE sift_down_range(SetAt(v, pos, At(v, c)), c, end, e, 2 * c + 1)
    ELSE IF child = end - 1 /\ ReverseLt(e, At(v, child))
         THEN SetAt(SetAt(v, pos, At(v, child)), child, e)
         ELSE SetAt(v, pos, e)

\* mount_point.rs 120-124, into_sorted_vec and the unwrapping of Reverse:
\* the greatest element is swapped to the end and the rest made a heap
\* again, until one element is left.
RECURSIVE into_sorted_vec(_, _)
into_sorted_vec(v, end) ==
    IF end > 1
    THEN LET last    == end - 1
             swapped == SetAt(SetAt(v, 0, At(v, last)), last, At(v, 0))
         IN  into_sorted_vec(
                 sift_down_range(swapped, 0, last, At(swapped, 0), 1), last)
    ELSE v

\* main.rs 38-43, find_mount_point_of_file: the first mount point of the
\* list that contains the path.
find_mount_point_of_file(list, path) ==
    LET hits == {i \in 1..Len(list) : contains(list[i], path)}
    IN  IF hits = {}
        THEN [kind |-> "err", err |-> "FailedToObtainMountPoints",
              path |-> path, mount |-> MountPoint("", <<>>)]
        ELSE [kind |-> "ok", path |-> path,
              mount |-> list[CHOOSE i \in hits : \A j \in hits : i <= j]]

\* mount_point.rs 95-97: what probe_mount_points_in returns when setmntent
\* could not open the table.
TableNotOpened ==
    [kind |-> "err", err |-> "FailedToObtainMountPoints", list |-> <<>>]

\* mount_point.rs 92-97: setmntent opens the table; a null stream is
\* Error::FailedToObtainMountPoints.
Setmntent ==
    /\ dpc = "probe"
    /\ mntent = 0
    /\ probed = NotProbed
    /\ \E ok \in BOOLEAN :
        IF ok
        THEN /\ mntent' = 1
             /\ mount_points' = <<>>
             /\ UNCHANGED probed
        ELSE /\ probed' = TableNotOpened
             /\ UNCHANGED <<mntent, mount_points>>
    /\ UNCHANGED <<mtab, found, trashv, driver, applied>>

\* mount_point.rs 99-118: getmntent returns the next entry, which is pushed
\* onto the heap.
Getmntent ==
    /\ dpc = "probe"
    /\ mntent \in 1..Len(mtab)
    /\ mount_points' = push(mount_points, mtab[mntent])
    /\ mntent' = mntent + 1
    /\ UNCHANGED <<mtab, probed, found, trashv, driver, applied>>

\* mount_point.rs 100-103, 120-124: getmntent returns null at the end of
\* the table, and the heap is returned as a sorted vector.
EndOfTable ==
    /\ dpc = "probe"
    /\ mntent = Len(mtab) + 1
    /\ probed = NotProbed
    /\ probed' = [kind |-> "ok",
                  list |-> into_sorted_vec(mount_points, Len(mount_points))]
    /\ UNCHANGED <<mtab, mntent, mount_points, found, trashv, driver, applied>>

\* main.rs 38-43: find_mount_point_of_file, for the canonical path of a
\* source, in the probed list.
FindMountPoint ==
    /\ probed.kind = "ok"
    /\ \E path \in Paths :
          found' = find_mount_point_of_file(probed.list, canonicalize(path))
    /\ UNCHANGED <<mtab, mntent, mount_points, probed, trashv, driver, applied>>

----------------------------------------------------------------------------
(* The driver: main.rs *)

\* The user's home directory: HOME, or pw_dir of the user database.
Homes == {<<"home", "u">>, <<"root">>}

\* The mount tables of the systems the driver runs on: "/" alone, with
\* "/home", with "/mnt/usb".
DriverTables ==
    { <<MountPoint(FsName(1), <<>>)>>,
      <<MountPoint(FsName(1), <<>>), MountPoint(FsName(2), <<"home">>)>>,
      <<MountPoint(FsName(1), <<>>), MountPoint(FsName(2), <<"mnt", "usb">>)>> }

\* main.rs 81-83: $topdir/.Trash-$uid, the real user id being 1000.
trash_uid_path(topdir) == topdir \o <<".Trash-1000">>

\* $topdir/.Trash, the trash shared by the users of a file system.
shared_trash_path(topdir) == topdir \o <<".Trash">>

\* What there can be under a mount directory before the program runs: any
\* of $topdir/files and $topdir/info; no $topdir/.Trash or one with its two
\* directories; no $topdir/.Trash-$uid, or one with any of its two
\* directories.
Layouts ==
    { top \cup shared \cup uid :
        top \in SUBSET TrashDirs(from_root(<<>>)),
        shared \in { {}, {shared_trash_path(<<>>)}
                            \cup TrashDirs(from_root(shared_trash_path(<<>>))) },
        uid \in { {} } \cup
                { {trash_uid_path(<<>>)} \cup sub :
                    sub \in SUBSET TrashDirs(from_root(trash_uid_path(<<>>))) } }

\* How many arguments the program is given at most.
MaxArgs == 3

\* The layouts of the systems the program is run on with several
\* arguments: $topdir/.Trash-$uid with its two directories, or without.
ArgLayouts ==
    { {trash_uid_path(<<>>)} \cup TrashDirs(from_root(trash_uid_path(<<>>))),
      {trash_uid_path(<<>>)} }

\* The directories of a system: the home trash, and the same layout under
\* every mount directory.
DirsOf(home, table, layout) ==
    TrashDirs(from_root(home_trash_path(home)))
        \cup { table[k].fs_path_prefix \o rel :
                  k \in 1..Len(table), rel \in layout }

\* What send_to_trash's state is left alone by the driver's own steps.
callv == <<clock, pc, locals, ret, calls, issued, inodes, hist>>

\* light_fs.rs 9-11, path_exists: access(path, F_OK).
path_exists(path) == path \in dirs

\* error.rs 7-8, Error::TrashDirDoesNotExist(PathBuf).
TrashDirDoesNotExist(path) ==
    [kind |-> "err", err |-> "TrashDirDoesNotExist", path |-> path]

\* A faulty variant of assert_exists that looks at $trash/files only.
assert_exists_files_only(t) ==
    IF ~path_exists(t.files)
    THEN TrashDirDoesNotExist(SubSeq(t.files, 1, Len(t.files) - 1))
    ELSE [kind |-> "ok"]

\* trash.rs 64-75, Trash::assert_exists: $trash/info and $trash/files must
\* exist ($trash/directorysizes is not looked at); the error carries the
\* parent of $trash/files.
assert_exists(t) ==
    IF ~path_exists(t.info) \/ ~path_exists(t.files)
    THEN TrashDirDoesNotExist(SubSeq(t.files, 1, Len(t.files) - 1))
    ELSE [kind |-> "ok"]

\* trash.rs 48-53, Trash::from_root_checked: the trash, or the error of
\* assert_exists.
from_root_checked(root) ==
    IF assert_exists(from_root(root)).kind = "ok"
    THEN [kind |-> "ok", trash |-> from_root(root)]
    ELSE assert_exists(from_root(root))

\* The ledger of a trash that is there, as the driver finds it.
FoundLedgers == {NoLedger, Ledger(FIRST_LINE), DirLedger}

\* The driver turns to the trash `t`: what it left there when it was there
\* before, or else a trash with nothing in it, with or without a ledger.
Visit(t) ==
    IF t.files \in DOMAIN shelf
    THEN /\ files' = shelf[t.files].files
         /\ info' = shelf[t.files].info
         /\ ledger' = shelf[t.files].ledger
    ELSE /\ files' = <<>>
         /\ info' = <<>>
         /\ ledger' \in FoundLedgers

\* The driver leaves the trash it was at.
Leave ==
    shelf' = [k \in (DOMAIN shelf) \cup {trash.files} |->
                IF k = trash.files
                THEN [files |-> files, info |-> info, ledger |-> ledger]
                ELSE shelf[k]]

\* A faulty variant of Exit: the program ends with the status 0 whatever
\* run returned.
ExitZero(r) == exit' = 0 /\ dpc' = "done"

\* run returns `r` (0 for Ok, 127 for an error; 101 is a panic).
Exit(r) == exit' = r /\ dpc' = "done"

\* A faulty variant of next_arg that yields the last argument.
next_arg_back(iter) == iter[Len(iter)]

\* main.rs 53, the `for` over env::args_os().skip(1): Iterator::next
\* yields the first of the arguments to come.
next_arg(iter) == Head(iter)

\* main.rs 53-60: the argument is made canonical, and a path that starts
\* with "/home" is for the home trash.
Route ==
    /\ dpc = "start"
    /\ args # <<>>
    /\ \E path \in {next_arg(args)} : \E ok \in Outcomes(origin[path].kind # "none") :
        /\ argv' = path
        /\ args' = Tail(args)
        /\ given' = Append(given, path)
        /\ dfault' = (dfault \/ (origin[path].kind # "none" /\ ~ok))
        /\ IF ~ok
           THEN /\ Exit(127)
                /\ UNCHANGED <<file, trash, files, info, ledger>>
           ELSE /\ file' = canonicalize(path)
                /\ exit' = exit
                /\ IF starts_with(canonicalize(path), <<"home">>)
                   THEN /\ trash' = HOME_TRASH
                        /\ Visit(HOME_TRASH)
                        /\ dpc' = "send"
                   ELSE /\ dpc' = "probe"
                        /\ UNCHANGED <<trash, files, info, ledger>>
    /\ UNCHANGED <<origin, callv, mounts, applied, HOME, dirs, dirs0, shelf>>

\* main.rs 53 and 63: env::args_os() has no more arguments, run returns
\* Ok(()) and the program ends with the status 0.
EndOfArgs ==
    /\ dpc = "start"
    /\ args = <<>>
    /\ Exit(0)
    /\ UNCHANGED <<trashv, mounts, applied, HOME, dirs, dirs0, argv, file, trash,
                   dfault, argsv>>

\* main.rs 32-33: the first use of MOUNT_POINTS probes the mount table (the
\* steps Setmntent, Getmntent and EndOfTable, taken at "probe").
\* main.rs 33 and 69-70: a table that could not be probed is a panic; the
\* mount point of the file is looked up, an error if there is none.
Locate ==
    /\ dpc = "probe"
    /\ probed.kind # "none"
    /\ IF probed.kind = "err"
       THEN Exit(101) /\ UNCHANGED found
       ELSE /\ found' = find_mount_point_of_file(probed.list, file)
            /\ IF found'.kind = "err"
               THEN Exit(127)
               ELSE dpc' = "topdir" /\ exit' = exit
    /\ UNCHANGED <<trashv, applied, mtab, mntent, mount_points, probed,
                   HOME, dirs, dirs0, argv, file, trash, dfault, argsv>>

\* main.rs 73-76: Trash::from_root_checked(topdir).
TryTopdir ==
    /\ dpc = "topdir"
    /\ LET topdir == found.mount.fs_path_prefix
       IN  IF from_root_checked(topdir).kind = "ok"
           THEN /\ trash' = from_root_checked(topdir).trash
                /\ Visit(from_root_checked(topdir).trash)
                /\ dpc' = "send"
           ELSE /\ dpc' = "uid"
                /\ UNCHANGED <<trash, files, info, ledger>>
    /\ UNCHANGED <<origin, callv, mounts, applied,
                   HOME, dirs, dirs0, argv, file, exit, dfault, argsv>>

\* main.rs 81-88: Trash::from_root_checked($topdir/.Trash-$uid), or else
\* Trash::from_root of it.
TryUid ==
    /\ dpc = "uid"
    /\ LET root == trash_uid_path(found.mount.fs_path_prefix)
       IN  /\ trash' = from_root(root)
           /\ IF from_root_checked(root).kind = "ok"
              THEN Visit(from_root(root)) /\ dpc' = "send"
              ELSE /\ files' = <<>> /\ info' = <<>> /\ ledger' = NoLedger
                   /\ dpc' = "create_info"
    /\ UNCHANGED <<origin, callv, mounts, applied,
                   HOME, dirs, dirs0, argv, file, exit, dfault, argsv>>

\* A faulty variant of create_dir: fs_err::create_dir_all(path), which makes
\* the missing parents too and succeeds on a directory that is there.
create_dir_all(path) == TRUE

\* fs_err::create_dir(path) can succeed: the parent is there, and no such
\* directory yet.
create_dir(path) ==
    /\ SubSeq(path, 1, Len(path) - 1)
          \in dirs \cup {mtab[k].fs_path_prefix : k \in 1..Len(mtab)}
    /\ path \notin dirs

\* main.rs 89 and 90: fs_err::create_dir(&trash.info), and of &trash.files.
CreateDir(at, path, next) ==
    /\ dpc = at
    /\ \E ok \in Outcomes(create_dir(path)) :
        /\ dfault' = (dfault \/ (create_dir(path) /\ ~ok))
        /\ IF ok
           THEN dirs' = dirs \cup {path} /\ dpc' = next /\ exit' = exit
           ELSE dirs' = dirs /\ Exit(127)
    /\ UNCHANGED <<trashv, mounts, applied, HOME, dirs0, argv, file, trash, argsv>>

CreateInfoDir  == CreateDir("create_info", trash.info, "create_files")
CreateFilesDir == CreateDir("create_files", trash.files, "create_ledger")

\* main.rs 91: fs_err::File::create(&trash.directory_sizes): an empty
\* ledger, whatever there was.
CreateLedger ==
    /\ dpc = "create_ledger"
    /\ \E ok \in BOOLEAN :
        /\ dfault' = (dfault \/ ~ok)
        /\ IF ok
           THEN ledger' = Ledger(<<>>) /\ dpc' = "send" /\ exit' = exit
           ELSE ledger' = ledger /\ Exit(127)
    /\ UNCHANGED <<origin, files, info, callv, mounts, applied,
                   HOME, dirs, dirs0, argv, file, trash, argsv>>

\* main.rs 57, 74 and 96: send_to_trash(&file) is called on the trash.
Send ==
    /\ dpc = "send"
    /\ Call(1)
    /\ arg'[1] = argv
    /\ dpc' = "sent"
    /\ UNCHANGED <<mounts, applied, HOME, dirs, dirs0, argv, file, trash, exit,
                   dfault, argsv>>

\* main.rs 45-50 and 57-61: an error of send_to_trash is the error of run
\* and the exit status 127; after an Ok the loop goes on to the next
\* argument.
Finish ==
    /\ dpc = "sent"
    /\ pc[1] = "idle"
    /\ Leave
    /\ IF ret[1].kind = "ok"
       THEN dpc' = "start" /\ exit' = exit
       ELSE Exit(127)
    /\ UNCHANGED <<trashv, mounts, applied, HOME, dirs, dirs0, argv, file, trash,
                   dfault, args, given>>

\* The longest of the names percent_encode is applied to on its own.
MaxNameLen == 3

\* The names percent_encode is applied to on its own: every single byte,
\* and the sequences of NUL, newline, space, percent sign, slash, "0", "A",
\* "z" and the byte 255.
NameBytes == {0, 10, 32, 37, 47, 48, 65, 122, 255}
Names ==
    {<<b>> : b \in 0..255}
        \cup UNION {[1..k -> NameBytes] : k \in 0..MaxNameLen}

\* directorysizes.rs 26-30: the name of a directory in $trash/files is
\* percent-encoded.
PercentEncode ==
    /\ applied = NotApplied
    /\ \E name \in Names :
          applied' = Applied("percent_encode", name, percent_encode(name))
    /\ UNCHANGED <<trashv, mounts, driver>>

\* fs.rs 73-92: directory_size is applied to a path.
DirectorySize ==
    /\ \E node \in SizeInputs :
          applied' = Applied("directory_size", node, directory_size(node))
    /\ UNCHANGED <<trashv, mounts, driver>>

----------------------------------------------------------------------------
(* The specifications *)

\* One run of the program: the calls follow one another.
Next == Begin(1) \/ Run(1)

Spec == Init /\ [][Next]_vars

\* Two runs of the program at once, each with one argument.
NextConc == \E p \in Procs : BeginOnce(p) \/ Run(p)

SpecConc == Init /\ [][NextConc]_vars

\* The probing of a mount table and the look-up of paths in it, for every
\* mount table.
InitProbe ==
    /\ InitTrash
    /\ \E table \in MountTables : InitMounts(table)
    /\ InitDriver(<<"home", "u">>,
                  TrashDirs(from_root(home_trash_path(<<"home", "u">>))),
                  "probe", 0)

NextProbe == Setmntent \/ Getmntent \/ EndOfTable \/ FindMountPoint

SpecProbe == InitProbe /\ [][NextProbe]_vars

\* percent_encode applied to the names.
SpecEncode == Init /\ [][PercentEncode]_vars

\* directory_size applied to the trees, files and symlinks.
SpecSize == Init /\ [][DirectorySize]_vars

\* One run of the program with one argument, on any of the systems: no
\* trash is looked at before the driver has chosen it.
InitRun ==
    /\ InitTrash
    /\ ledger = NoLedger
    /\ \E table \in DriverTables, home \in Homes, layout \in Layouts :
          /\ InitMounts(table)
          /\ InitDriver(home, DirsOf(home, table, layout), "start", 1)

NextRun ==
    \/ Route
    \/ EndOfArgs
    \/ Setmntent \/ Getmntent \/ EndOfTable
    \/ Locate
    \/ TryTopdir
    \/ TryUid
    \/ CreateInfoDir
    \/ CreateFilesDir
    \/ CreateLedger
    \/ Send
    \/ Run(1)
    \/ Finish

SpecRun == InitRun /\ [][NextRun]_vars

\* One run of the program with up to MaxArgs arguments, the user's home
\* being /home/u, on a system with "/" and "/mnt/usb" mounted, each with
\* its $topdir/.Trash-$uid complete or with neither of its directories.
InitArgs ==
    /\ InitTrash
    /\ ledger = NoLedger
    /\ InitMounts(<<MountPoint(FsName(1), <<>>),
                    MountPoint(FsName(2), <<"mnt", "usb">>)>>)
    /\ \E n \in 0..MaxArgs, layout \in ArgLayouts :
          InitDriver(<<"home", "u">>,
                     DirsOf(<<"home", "u">>, mtab, layout), "start", n)

SpecArgs == InitArgs /\ [][NextRun]_vars

----------------------------------------------------------------------------
(* The properties *)

\* The info file of the call of p is there under the chosen name, with its
\* three lines, and synced.
InfoWritten(p) ==
    LET path == build_info_file_path(fileName[p])
    IN  /\ path \in DOMAIN info
        /\ info[path].lines = InfoLines(arg[p], stamp[p])
        /\ info[path].synced

\* The call of p has returned.
Returned(p) == pc[p] = "idle" /\ ret[p] # NoResult

\* The call of p has returned Ok.
ReturnedOk(p) == pc[p] = "idle" /\ ret[p].kind = "ok"

\* C1: every step of send_to_trash that moves or removes the source, or that
\* creates or changes the entry of the chosen name in files_dir (the rename,
\* the copy's open and writes, the removal of the source), is taken in a
\* state where the info file of the chosen name is completely written and
\* synced.
C1_InfoBeforeRelocation ==
    [][\A p \in Procs :
          ( /\ pc'[p] # pc[p]
            /\ \/ origin' # origin
               \/ Lookup(files', fileName[p]) # Lookup(files, fileName[p]) )
          => InfoWritten(p)]_vars

\* C1, witness: a call has relocated its source by the copy fallback and
\* returned Ok, the info file written and synced.
C1_Witness ==
    \E p \in Procs :
        /\ ReturnedOk(p)
        /\ faulted[p]
        /\ origin[arg[p]] = NoFile
        /\ Content(Lookup(files, fileName[p])) = Content(InitialNode(arg[p]))
        /\ InfoWritten(p)

\* C2: every entry of files_dir has an info file of the same name plus
\* ".trashinfo", in every reachable state.
C2_EveryEntryHasInfo ==
    \A n \in DOMAIN files : build_info_file_path(n) \in DOMAIN info

\* The move of the call of p failed: `err` of trash.rs 131 is set.
MoveFailed(p) == Returned(p) /\ moveErr[p] # "none"

\* C3, as stated: after a call whose relocation failed, the info file of
\* the chosen name does not exist.
C3_RollbackAlways ==
    \A p \in Procs :
        MoveFailed(p) => build_info_file_path(fileName[p]) \notin DOMAIN info

\* C3, amended: after a call whose relocation failed, the info file of the
\* chosen name does not exist, unless its removal failed, and then the call
\* returned the removal's error.
C3_RollbackUnlessRemoveFails ==
    \A p \in Procs :
        MoveFailed(p) =>
            \/ build_info_file_path(fileName[p]) \notin DOMAIN info
            \/ ret[p] = Err("Io:remove_info")

\* C3, witness: a relocation failed after the copy had started, the info
\* file is gone and the move's error was returned.
C3_Witness ==
    \E p \in Procs :
        /\ MoveFailed(p)
        /\ ret[p] = Err(moveErr[p])
        /\ fileName[p] \in DOMAIN files
        /\ build_info_file_path(fileName[p]) \notin DOMAIN info

\* The names of the NamedTempFiles.
TempNames == {TmpName(p) : p \in Procs}

\* The trashed items in files_dir: its entries but the temp files.
Trashed == (DOMAIN files) \ TempNames

\* `path` was trashed: an entry of files_dir holds what the path named.
Holds(n, path) == n \in Trashed /\ Content(files[n]) = Content(InitialNode(path))

\* C4: nothing that was in files_dir when a call started is removed or
\* changed by it, and the sources of n successful calls are n different
\* entries of files_dir.
C4_NeverOverwrites ==
    /\ \A p \in Procs : \A n \in (DOMAIN files0[p]) \ TempNames :
          n \in DOMAIN files /\ files[n] = files0[p][n]
    /\ \A s \in succeeded : \E n \in Trashed : Holds(n, s)
    /\ Cardinality(Trashed) >= Cardinality(succeeded)

\* C4, witness: two sources of the same base name were trashed, one after
\* the other, the first by the copy fallback.
C4_Witness ==
    /\ succeeded = {<<"a", NameX>>, <<"b", NameX>>}
    /\ Holds(NameX, <<"a", NameX>>)
    /\ files[NameX].ino # InitialNode(<<"a", NameX>>).ino
    /\ pc[1] = "idle"
    /\ files0[1] # <<>>

\* C5, as stated: the name a call chose when the base name was taken is the
\* base name, a hyphen and a UUID.
C5_HyphenBeforeUuid ==
    \A p \in Procs :
        ReturnedOk(p) /\ existed[p] =>
            \E k \in 1..issued :
                ret[p].name = file_name(arg[p]) \o <<45>> \o Uuid(k)

\* C5, amended: a call that found the base name free in files_dir trashes
\* under the base name, a call that found it taken trashes under the base
\* name followed at once by a UUID; either way the entry and its info file
\* are there under the returned name, and two sources of one base name are
\* two entries with two info files.
C5_UuidAppended ==
    /\ \A p \in Procs :
          ReturnedOk(p) =>
            /\ IF existed[p]
               THEN \E k \in 1..issued :
                        ret[p].name = file_name(arg[p]) \o Uuid(k)
               ELSE ret[p].name = file_name(arg[p])
            /\ Holds(ret[p].name, arg[p])
            /\ build_info_file_path(ret[p].name) \in DOMAIN info
    /\ \A s, t \in succeeded :
          s # t /\ file_name(s) = file_name(t) =>
            \E m, n \in Trashed :
                /\ m # n /\ Holds(m, s) /\ Holds(n, t)
                /\ build_info_file_path(m) \in DOMAIN info
                /\ build_info_file_path(n) \in DOMAIN info
                /\ build_info_file_path(m) # build_info_file_path(n)

\* C5, witness: /a/x was trashed as "x" and then /b/x as "x" and a UUID.
C5_Witness ==
    /\ ReturnedOk(1) /\ existed[1]
    /\ arg[1] = <<"b", NameX>>
    /\ Holds(NameX, <<"a", NameX>>)
    /\ Holds(NameX \o Uuid(1), <<"b", NameX>>)
    /\ DOMAIN info = {build_info_file_path(NameX),
                      build_info_file_path(NameX \o Uuid(1))}

\* C6: after a directory was trashed into a trash that had a ledger, the
\* ledger is what it was when the call started followed by one line: the
\* size of the directory as the source had it before the relocation, a
\* space, the seconds of `now`, a space, the percent-encoded returned name,
\* a newline.
C6_OneLineAppended ==
    \A p \in Procs :
        ReturnedOk(p) /\ dirSize[p].some /\ ledger0[p].exists =>
            /\ ledger.exists
            /\ ledger.data =
                  ledger0[p].data
                    \o Decimal(directory_size(InitialNode(arg[p]))) \o <<32>>
                    \o Decimal(now[p]) \o <<32>>
                    \o percent_encode(ret[p].name) \o <<10>>

\* C6, witness: /c/x, of 12 bytes, was trashed at second 1 after a file "x":
\* the ledger is the first line and "12 1 x1%2Db\n".
C6_Witness ==
    /\ ReturnedOk(1) /\ dirSize[1].some
    /\ ledger0[1] = Ledger(FIRST_LINE)
    /\ ledger = Ledger(FIRST_LINE \o
                  <<49, 50, 32, 49, 32, 120, 49, 37, 50, 68, 98, 10>>)

\* How many bytes of `data` are `b`.
RECURSIVE Count(_, _)
Count(data, b) ==
    IF data = <<>> THEN 0
    ELSE (IF Head(data) = b THEN 1 ELSE 0) + Count(Tail(data), b)

\* `data` is whole lines: it ends with a newline, and has the two spaces of
\* three fields for every newline.
WholeLines(data) ==
    data = <<>> \/
        (data[Len(data)] = 10 /\ Count(data, 32) = 2 * Count(data, 10))

\* C7: in a run of the program, the ledger path always shows whole lines,
\* and a step changes what it shows only from the whole old content to the
\* old content followed by the whole line of the running call; a ledger
\* that is there stays there.
C7_LedgerAtomic ==
    /\ [](ledger.exists => WholeLines(ledger.data))
    /\ [][ \/ ledger' = ledger
           \/ /\ ledger.exists
              /\ \E p \in Procs :
                    /\ pc[p] = "tmp_rename"
                    /\ ledger' = Ledger(ledger.data \o LineOf(p)) ]_vars

\* C7, witness: the temp file holds the old content and a part of the new
\* line while the ledger path shows the old content.
C7_Witness ==
    \E p \in Procs :
        /\ pc[p] = "tmp_append_rest"
        /\ ledger = Ledger(FIRST_LINE)
        /\ ~WholeLines(files[TmpName(p)].data)

\* `part` occurs in `data`.
Occurs(part, data) ==
    \E i \in 0..(Len(data) - Len(part)) :
        SubSeq(data, i + 1, i + Len(part)) = part

\* Both directories' calls returned Ok, and both had copied the same
\* ledger: neither copy saw the other's line.
BothCopiedFirst(p, q) ==
    /\ p # q
    /\ ReturnedOk(p) /\ ReturnedOk(q)
    /\ dirSize[p].some /\ dirSize[q].some
    /\ copied[p] = copied[q]

\* C8: when two concurrent calls both copied the ledger before either
\* renamed its temp file over it, the ledger ends as the copied content and
\* the line of the call that renamed last; the line of the other is not in
\* it, and it is whole lines.
C8_LastWriterWins ==
    \A p, q \in Procs :
        BothCopiedFirst(p, q) /\ lastLedger = p =>
            /\ ledger = Ledger(copied[p] \o LineOf(p))
            /\ ~Occurs(LineOf(q), ledger.data)
            /\ WholeLines(ledger.data)

\* C8, witness: /c/x and /e/y were trashed at once, both calls returned Ok,
\* and the ledger has the first line and the line of /e/y alone.
C8_Witness ==
    /\ BothCopiedFirst(1, 2)
    /\ arg[1] = <<"c", NameX>> /\ arg[2] = <<"e", NameY>>
    /\ lastLedger = 2
    /\ ledger = Ledger(FIRST_LINE \o LedgerLine(0, now[2], NameY))
    /\ {NameX, NameY} \subseteq DOMAIN files

\* Two calls for different regular files returned Ok with the same name.
SameNameTwice(p, q) ==
    /\ p # q
    /\ ReturnedOk(p) /\ ReturnedOk(q)
    /\ arg[p] # arg[q]
    /\ InitialNode(arg[p]).kind = "file" /\ InitialNode(arg[q]).kind = "file"
    /\ ret[p].name = ret[q].name

\* C9: two calls for different regular files return Ok with the same name
\* only when both found the base name free; then the name is the base name,
\* both sources are gone from their paths, at most one of them is in
\* files_dir, and files_dir and info_dir hold one entry for the two.
C9_BothChooseBaseName ==
    \A p, q \in Procs :
        SameNameTwice(p, q) =>
            /\ ~existed[p] /\ ~existed[q]
            /\ ret[p].name = file_name(arg[p])
            /\ origin[arg[p]] = NoFile /\ origin[arg[q]] = NoFile
            /\ ~(\E m, n \in Trashed : Holds(m, arg[p]) /\ Holds(n, arg[q]))
            /\ Trashed = {ret[p].name}
            /\ DOMAIN info = {build_info_file_path(ret[p].name)}

\* C9, witness: /a/x and /b/x were trashed at once without any I/O error,
\* both calls returned Ok("x"), and files_dir holds /b/x alone, with one
\* info file.
C9_Witness ==
    /\ SameNameTwice(1, 2)
    /\ ~faulted[1] /\ ~faulted[2]
    /\ lastMover = 2
    /\ files = (NameX :> InitialNode(arg[2]))
    /\ DOMAIN info = {build_info_file_path(NameX)}

\* C10: a directory's call into a trash without a ledger, no system call
\* failing by an I/O error, returns Ok and leaves a ledger of the one line.
C10_LedgerCreatedLazily ==
    \A p \in Procs :
        ( /\ Returned(p)
          /\ InitialNode(arg[p]).kind = "dir"
          /\ ~ledger0[p].exists
          /\ ~faulted[p] )
        => /\ ret[p].kind = "ok"
           /\ ledger = Ledger(LineOf(p))

\* The errors of update_directory_sizes and copy_directorysizes.
LedgerErrors ==
    {"Io:tempfile", "Io:copy_ledger", "Io:open_temp", "Io:write_temp",
     "Io:rename_ledger"}

\* The call of p relocated a directory and returned an error of the ledger
\* update.
LedgerUpdateFailed(p) ==
    /\ Returned(p)
    /\ dirSize[p].some
    /\ ret[p].kind = "err"
    /\ ret[p].err \in LedgerErrors

\* C11: when a step of the ledger update fails after a directory was
\* relocated, the call returns that error (no other error is returned once
\* the relocation succeeded) and nothing is rolled back: the source is gone
\* from its path, the entry of the chosen name holds it, its info file is
\* there, complete, and the ledger is what it was when the call started.
C11_LedgerFailureNotRolledBack ==
    \A p \in Procs :
        /\ LedgerUpdateFailed(p) =>
              /\ origin[arg[p]] = NoFile
              /\ Holds(fileName[p], arg[p])
              /\ InfoWritten(p)
              /\ ledger = ledger0[p]
        /\ ( Returned(p) /\ dirSize[p].some /\ ret[p].kind = "err"
              /\ origin[arg[p]] = NoFile /\ moveErr[p] = "none" )
            => ret[p].err \in LedgerErrors

\* C11, witness: /c/x was relocated, the write of its line to the temp file
\* failed half way, and the ledger is still the first line.
C11_Witness ==
    /\ LedgerUpdateFailed(1)
    /\ arg[1] = <<"c", NameX>>
    /\ ret[1] = Err("Io:write_temp")
    /\ ledger = Ledger(FIRST_LINE)
    /\ Holds(NameX, <<"c", NameX>>)

\* What follows the n-th space of `line`, without the newline at its end.
RECURSIVE FieldsAfter(_, _)
FieldsAfter(line, n) ==
    IF n = 0 \/ line = <<>>
    THEN (IF line # <<>> /\ line[Len(line)] = 10
          THEN SubSeq(line, 1, Len(line) - 1) ELSE line)
    ELSE FieldsAfter(Tail(line), IF Head(line) = 32 THEN n - 1 ELSE n)

\* C14: a call that returns Ok(R) has made the entry R of files_dir, which
\* was not there when the call started and holds the source; the info file
\* it wrote is R and ".trashinfo"; and for a directory the ledger's last
\* line has the percent-encoding of R as its name field.
C14_ReturnsStoredName ==
    \A p \in Procs :
        ReturnedOk(p) =>
            LET R == ret[p].name
            IN  /\ R \notin DOMAIN files0[p]
                /\ Holds(R, arg[p])
                /\ build_info_file_path(R) \in DOMAIN info
                /\ info[build_info_file_path(R)].lines
                      = InfoLines(arg[p], stamp[p])
                /\ dirSize[p].some =>
                      /\ ledger.exists
                      /\ FieldsAfter(LastLine(ledger.data), 2) = percent_encode(R)

\* C14, witness: the directory /c/x was trashed after the file /a/x: it is
\* returned, stored and recorded as "x" and a UUID.
C14_Witness ==
    /\ ReturnedOk(1)
    /\ arg[1] = <<"c", NameX>>
    /\ existed[1]
    /\ ret[1].name = NameX \o Uuid(1)
    /\ FieldsAfter(LastLine(ledger.data), 2) = <<120, 49, 37, 50, 68, 98>>

\* C15: the list probe_mount_points_in returns has every entry of the mount
\* table, as often as the table has it, and for all i < j the prefix at i
\* is at least as long as the prefix at j.
C15_MountOrdering ==
    probed.kind = "ok" =>
        /\ Len(probed.list) = Len(mtab)
        /\ \A k \in 1..Len(mtab) :
              Count(probed.list, mtab[k]) = Count(mtab, mtab[k])
        /\ \A i, j \in 1..Len(probed.list) :
              i < j => os_len(probed.list[i].fs_path_prefix)
                         >= os_len(probed.list[j].fs_path_prefix)

\* C15, witness: the table "/", "/mnt/usb", "/mnt" was probed into
\* "/mnt/usb", "/mnt", "/".
C15_Witness ==
    /\ probed.kind = "ok"
    /\ [k \in 1..Len(mtab) |-> mtab[k].fs_path_prefix]
          = << <<>>, <<"mnt", "usb">>, <<"mnt">> >>
    /\ [k \in 1..Len(probed.list) |-> probed.list[k].fs_path_prefix]
          = << <<"mnt", "usb">>, <<"mnt">>, <<>> >>

\* The mount points of the probed list whose prefix is a prefix of `path`.
Owners(path) ==
    {i \in 1..Len(probed.list) :
        starts_with(path, probed.list[i].fs_path_prefix)}

\* C16: find_mount_point_of_file returns a mount point whenever some mount
\* point's prefix is a prefix of the path, and the one it returns has a
\* prefix of the path that is as long as any such prefix; it returns an
\* error only when no mount point's prefix is a prefix of the path.
C16_LongestPrefixMatch ==
    found.kind # "none" =>
        /\ found.kind = "ok" <=> Owners(found.path) # {}
        /\ found.kind = "ok" =>
              /\ starts_with(found.path, found.mount.fs_path_prefix)
              /\ \E i \in Owners(found.path) : found.mount = probed.list[i]
              /\ \A i \in Owners(found.path) :
                    os_len(probed.list[i].fs_path_prefix)
                        <= os_len(found.mount.fs_path_prefix)

\* C16, witness: with "/", "/mnt" and "/mnt/usb" mounted (read in that
\* order), /mnt/usb/x is found on "/mnt/usb".
C16_Witness ==
    /\ found.kind = "ok"
    /\ found.path = <<"mnt", "usb", "x">>
    /\ [k \in 1..Len(mtab) |-> mtab[k].fs_path_prefix]
          = << <<>>, <<"mnt">>, <<"mnt", "usb">> >>
    /\ found.mount = MountPoint(FsName(3), <<"mnt", "usb">>)

\* What lstat tells of a node's content and metadata: the kind, the bytes,
\* the tree, the permission bits and the two times.
SameFile(a, b) ==
    /\ Content(a) = Content(b)
    /\ a.mode = b.mode
    /\ a.mtime = b.mtime
    /\ a.atime = b.atime

\* A call of p on a regular file into an empty trash has returned, and no
\* system call of it failed by an I/O error.
FileIntoEmptyTrash(p) ==
    /\ Returned(p)
    /\ ~faulted[p]
    /\ InitialNode(arg[p]).kind = "file"
    /\ files0[p] = <<>>

\* C12: trashing a regular file into an empty trash succeeds; the file is
\* absent at its original location, the entry of its base name in files_dir
\* has the content, the permission bits and the modification and access
\* times the source had, and the info file of that name holds the three
\* lines; by rename and by the copy-and-remove fallback alike.
C12_FileKeepsContentAndMetadata ==
    \A p \in Procs :
        FileIntoEmptyTrash(p) =>
            /\ ReturnedOk(p)
            /\ ret[p].name = file_name(arg[p])
            /\ origin[arg[p]] = NoFile
            /\ SameFile(Lookup(files, file_name(arg[p])), InitialNode(arg[p]))
            /\ InfoWritten(p)

\* C12, what the code does keep: the content and the permission bits, by
\* rename and by copy alike.
C12_FileKeepsContentAndMode ==
    \A p \in Procs :
        FileIntoEmptyTrash(p) =>
            /\ ReturnedOk(p)
            /\ ret[p].name = file_name(arg[p])
            /\ origin[arg[p]] = NoFile
            /\ Content(Lookup(files, file_name(arg[p])))
                  = Content(InitialNode(arg[p]))
            /\ Lookup(files, file_name(arg[p])).mode = InitialNode(arg[p]).mode
            /\ InfoWritten(p)

\* C13: when the rename fails because the source is on another file system
\* than the trash, a directory is copied with its whole tree and removed:
\* the call succeeds, the tree is in files_dir under the chosen name and the
\* source is absent.
C13_DirectoryCopiedAcrossDevices ==
    \A p \in Procs :
        ( /\ Returned(p)
          /\ ~faulted[p]
          /\ InitialNode(arg[p]).kind = "dir"
          /\ ledger0[p].exists
          /\ CrossDevice(p) )
        => /\ ReturnedOk(p)
           /\ Holds(ret[p].name, arg[p])
           /\ origin[arg[p]] = NoFile

\* C13, what the code does: the directory on another file system stays
\* where it was, nothing of it is in files_dir and the call returns the
\* error of the copy.
C13_DirectoryStaysAcrossDevices ==
    \A p \in Procs :
        ( /\ Returned(p)
          /\ ~faulted[p]
          /\ InitialNode(arg[p]).kind = "dir"
          /\ CrossDevice(p) )
        => /\ ret[p] = Err("Io:copy")
           /\ origin[arg[p]] = InitialNode(arg[p])
           /\ files = <<>>
           /\ info = <<>>

\* The mount directory of the file system the driver's file is on.
Topdir == mtab[MountOf(file)].fs_path_prefix

\* $topdir/.Trash and $topdir/.Trash-$uid of the file's mount directory.
SharedTrash == from_root(shared_trash_path(Topdir))
UidTrash    == from_root(trash_uid_path(Topdir))

\* The trash had its two directories when the program started.
WasValid(t) == TrashDirs(t) \subseteq dirs0

\* The driver has called send_to_trash, on a trash of the file's mount
\* directory.
SentPerMount == calls = 1 /\ trash # HOME_TRASH

\* C17: for a target that is not sent to the home trash, the trash at
\* $topdir/.Trash of the owning mount is tried first: when its files and
\* info directories exist, the item is trashed into it.
C17_SharedTrashFirst ==
    SentPerMount /\ WasValid(SharedTrash) => trash = SharedTrash

\* C17, what the code does: it is the mount directory itself that is tried
\* as a trash ($topdir/files and $topdir/info), and then $topdir/.Trash-$uid;
\* $topdir/.Trash is never looked at.
C17_TopdirItselfFirst ==
    SentPerMount =>
        trash = IF WasValid(from_root(Topdir)) THEN from_root(Topdir)
                ELSE UidTrash

\* The driver has ended after it turned to $topdir/.Trash-$uid.
EndedAtUidTrash == dpc = "done" /\ file # <<>> /\ trash = UidTrash

\* C18: when $topdir/.Trash-$uid does not exist at all, it is created with
\* its files and info directories and an empty ledger, and the item is then
\* trashed into it.
C18_UidTrashCreated ==
    ( /\ EndedAtUidTrash
      /\ trash_uid_path(Topdir) \notin dirs0
      /\ ~dfault /\ ~faulted[1] )
    => /\ exit = 0
       /\ {trash_uid_path(Topdir)} \cup TrashDirs(UidTrash) \subseteq dirs
       /\ ledger.exists
       /\ origin[argv] = NoFile
       /\ ReturnedOk(1)

\* C18, what the code does: the directory $topdir/.Trash-$uid itself is
\* never made, so that the creation of its info directory fails: nothing is
\* created, nothing is trashed and the program ends with an error.
C18_UidTrashNeverCreated ==
    EndedAtUidTrash /\ trash_uid_path(Topdir) \notin dirs0
    => /\ exit = 127
       /\ dirs = dirs0
       /\ calls = 0
       /\ origin[argv] = InitialNode(argv)

\* $topdir/.Trash-$uid was there when the program started, without one of
\* its two directories, and the driver has ended after it turned to it.
EndedAtInvalidUidTrash ==
    /\ EndedAtUidTrash
    /\ trash_uid_path(Topdir) \in dirs0
    /\ ~WasValid(UidTrash)

\* Nothing was trashed: the target is where it was and no call was made.
NothingTrashed ==
    /\ calls = 0
    /\ origin[argv] = InitialNode(argv)
    /\ files = <<>> /\ info = <<>> /\ ledger = NoLedger

\* C19, as stated: if $topdir/.Trash-$uid exists without its files or its
\* info directory, the program ends with an error, the target stays and
\* the directory is left as it was: nothing is created in it and nothing is
\* trashed.
C19_InvalidUidTrashUntouched ==
    EndedAtInvalidUidTrash =>
        exit = 127 /\ dirs = dirs0 /\ NothingTrashed

\* C19, amended: the driver goes on to create info, then files, then the
\* ledger.  With one of the two directories there, the creation of the one
\* that is there fails: the program ends with an error and nothing is
\* trashed, but the info directory was made when it was the one missing.
\* With neither there, both are made, the ledger is made empty and the item
\* is trashed into $topdir/.Trash-$uid.
C19_InvalidUidTrashCompleted ==
    EndedAtInvalidUidTrash /\ ~dfault =>
        CASE UidTrash.info \in dirs0 ->
                exit = 127 /\ dirs = dirs0 /\ NothingTrashed
          [] UidTrash.files \in dirs0 ->
                /\ exit = 127
                /\ dirs = dirs0 \cup {UidTrash.info}
                /\ NothingTrashed
          [] OTHER ->
                /\ dirs = dirs0 \cup TrashDirs(UidTrash)
                /\ calls = 1
                /\ ledger0[1] = Ledger(<<>>)
                /\ ~faulted[1] =>
                      /\ exit = 0
                      /\ origin[argv] = NoFile
                      /\ Holds(ret[1].name, argv)

\* C19, witness: $topdir/.Trash-$uid had its files directory only; the
\* program ended with an error after it had made the info directory.
C19_Witness ==
    /\ EndedAtInvalidUidTrash
    /\ ~dfault
    /\ UidTrash.files \in dirs0
    /\ dirs = dirs0 \cup {UidTrash.info}
    /\ dirs # dirs0
    /\ exit = 127

\* C19, the other case: $topdir/.Trash-$uid had neither directory, both were
\* made and the item was trashed.
C19_CompletedAndTrashed ==
    /\ EndedAtInvalidUidTrash
    /\ TrashDirs(UidTrash) \cap dirs0 = {}
    /\ exit = 0
    /\ origin[argv] = NoFile

\* C20: a target is sent to the home trash exactly when it lies under the
\* user's home directory: never to a trash of a mount directory when it is
\* under the home, never to the home trash when it is not.
C20_HomeTrashIffUnderHome ==
    calls = 1 => (trash = HOME_TRASH <=> starts_with(file, HOME))

\* C20, what the code does: a target is sent to the home trash exactly
\* when its path begins with /home, whatever the user's home is.
C20_HomeTrashIffUnderSlashHome ==
    calls = 1 => (trash = HOME_TRASH <=> starts_with(file, <<"home">>))

\* The roots a trash can have: a mount directory, its .Trash or its
\* .Trash-$uid, or the home trash.
Roots ==
    {home_trash_path(HOME)}
        \cup UNION { {d, shared_trash_path(d), trash_uid_path(d)} :
                        d \in {mtab[k].fs_path_prefix : k \in 1..Len(mtab)} }

\* C21: from_root_checked(root) returns the trash of `root` if and only if
\* root/files and root/info both exist, whether or not there is a
\* root/directorysizes, and otherwise the error TrashDirDoesNotExist that
\* carries `root`; the steps of the driver that call it change nothing in
\* the file system.
C21_CheckedIffFilesAndInfo ==
    [][ /\ \A root \in Roots :
              from_root_checked(root) =
                  IF {root \o <<"files">>, root \o <<"info">>} \subseteq dirs
                  THEN [kind |-> "ok",
                        trash |-> [files |-> root \o <<"files">>,
                                   directory_sizes |->
                                       root \o <<"directorysizes">>,
                                   info |-> root \o <<"info">>]]
                  ELSE TrashDirDoesNotExist(root)
        /\ dpc \in {"topdir", "uid"} /\ dpc' # dpc =>
              /\ dirs' = dirs
              /\ <<origin, files, info>>' = <<origin, files, info>> ]_vars

\* C21, witness: the mount directory was refused as a trash for the info
\* directory it lacks, and $topdir/.Trash-$uid was taken with its two
\* directories and no directorysizes.
C21_Witness ==
    /\ dpc = "send"
    /\ trash = UidTrash
    /\ ledger = NoLedger
    /\ dirs = dirs0
    /\ Topdir \o <<"files">> \in dirs
    /\ from_root_checked(Topdir) = TrashDirDoesNotExist(Topdir)
    /\ from_root_checked(trash_uid_path(Topdir)).kind = "ok"

\* What the trashes hold: the entries of the trash the driver is at and of
\* those it left behind.
InSomeTrash(path) ==
    \/ \E n \in DOMAIN files :
          Content(files[n]) = Content(InitialNode(path))
    \/ \E k \in DOMAIN shelf : \E n \in DOMAIN shelf[k].files :
          Content(shelf[k].files[n]) = Content(InitialNode(path))

\* The argument was trashed: its call returned Ok, it is gone from its
\* path and a trash holds it.
WasTrashed(path) ==
    /\ path \in succeeded
    /\ origin[path] = NoFile
    /\ InSomeTrash(path)

\* The driver came to an argument it did not call send_to_trash for, or the
\* last call of send_to_trash returned an error.
SomethingFailed ==
    \/ Len(given) # calls
    \/ calls > 0 /\ pc[1] = "idle" /\ ret[1].kind = "err"

\* C22: the program ends with the status 0 only if every argument was
\* trashed; if the path of an argument cannot be resolved or a call of
\* send_to_trash fails, it ends with the status 127.  (The one other way
\* it ends is the panic for a mount table that cannot be read.)
C22_ExitStatus ==
    dpc = "done" =>
        /\ exit \in {0, 127, 101}
        /\ exit = 0 =>
              /\ args = <<>>
              /\ \A i \in 1..Len(given) : WasTrashed(given[i])
        /\ exit = 101 => probed.kind = "err"
        /\ SomethingFailed /\ probed.kind # "err" => exit = 127

\* C22, witness: the first argument was trashed, the call for the second
\* returned an error and the program ended with 127.
C22_Witness ==
    /\ dpc = "done"
    /\ exit = 127
    /\ Len(given) = 2
    /\ WasTrashed(given[1])
    /\ calls = 2
    /\ ret[1].kind = "err"

\* C22, the other case: two arguments were trashed, into two trashes, and
\* the program ended with 0.
C22_TwoTrashed ==
    /\ dpc = "done"
    /\ exit = 0
    /\ Len(given) = 2
    /\ Cardinality(DOMAIN shelf) = 2
    /\ \A i \in 1..2 : WasTrashed(given[i])

RECURSIVE RealSize(_)
RECURSIVE RealSizes(_)
\* The bytes of the regular files of a tree, through its real directories:
\* every file once, nothing for a symlink.
RealSize(node) ==
    CASE node.kind = "file" -> Len(node.data)
      [] node.kind = "dir"  -> RealSizes(node.tree)
      [] OTHER              -> 0
RealSizes(entries) ==
    IF entries = <<>> THEN 0
    ELSE RealSize(Head(entries)) + RealSizes(Tail(entries))

\* C23: directory_size ends on every tree, with symlinks to an ancestor or
\* to themselves in it, and returns the sum of the lstat sizes of the
\* regular files reached through real directories, no symlink followed; of
\* a path that is not a directory it returns the lstat size of the path.
C23_NoSymlinkFollowed ==
    applied.fn = "directory_size" =>
        applied.output =
            IF applied.input.kind = "dir" THEN RealSize(applied.input)
            ELSE lstat_size(applied.input)

\* C23, what the code does: the path itself is followed when it is a
\* symlink; of a symlink to a directory the size of that directory's tree
\* is returned.  Within the tree no symlink is followed.
C23_PathItselfFollowed ==
    applied.fn = "directory_size" =>
        applied.output =
            IF Followed(applied.input).kind = "dir"
            THEN RealSize(Followed(applied.input))
            ELSE lstat_size(applied.input)

\* C23, a tree with a symlink to its parent and a directory with a symlink
\* to itself was measured: the two files counted, the symlinks not.
C23_TreeWithLinksMeasured ==
    /\ applied.fn = "directory_size"
    /\ applied.input =
          Directory(0, << Directory(0, <<Symlink(<<46>>)>>),
                          Symlink(<<46, 46>>) >>)
    /\ applied.output = 0

\* The value of a hexadecimal digit, -1 of any other byte.
HexValue(c) ==
    CASE c \in 48..57  -> c - 48
      [] c \in 65..70  -> c - 55
      [] c \in 97..102 -> c - 87
      [] OTHER         -> -1

\* A percent sign and two hexadecimal digits begin `enc`.
Escaped(enc) ==
    /\ Len(enc) >= 3
    /\ enc[1] = 37
    /\ HexValue(enc[2]) >= 0
    /\ HexValue(enc[3]) >= 0

RECURSIVE percent_decode(_)
\* Percent-decoding: %XX is the byte XX, every other byte itself.
percent_decode(enc) ==
    IF enc = <<>> THEN <<>>
    ELSE IF Escaped(enc)
         THEN <<16 * HexValue(enc[2]) + HexValue(enc[3])>>
                  \o percent_decode(SubSeq(enc, 4, Len(enc)))
         ELSE <<Head(enc)>> \o percent_decode(Tail(enc))

RECURSIVE OnlyAlphanumericsAndEscapes(_)
\* `enc` is made of ASCII letters, digits and %XX escapes.
OnlyAlphanumericsAndEscapes(enc) ==
    IF enc = <<>> THEN TRUE
    ELSE IF Escaped(enc)
         THEN OnlyAlphanumericsAndEscapes(SubSeq(enc, 4, Len(enc)))
         ELSE /\ (enc[1] \in 48..57) \/ (enc[1] \in 65..90)
                    \/ (enc[1] \in 97..122)
              /\ OnlyAlphanumericsAndEscapes(Tail(enc))

\* C24: for every name, decoding the encoded name field gives the name
\* back, encoding that again gives the same field, and the field is made of
\* ASCII letters, digits and %XX escapes only: no space, no newline, and a
\* ledger line of the name has three fields, two spaces between them, and
\* the one newline at its end.
C24_EncodingRoundTrip ==
    applied.fn = "percent_encode" =>
        LET name == applied.input
            enc  == applied.output
            line == LedgerLine(12, 1, name)
        IN  /\ percent_decode(enc) = name
            /\ percent_encode(percent_decode(enc)) = enc
            /\ OnlyAlphanumericsAndEscapes(enc)
            /\ \A i \in 1..Len(enc) : enc[i] \notin {32, 10}
            /\ Count(line, 32) = 2
            /\ Count(line, 10) = 1
            /\ line[Len(line)] = 10

\* C24, witness: the name of a percent sign, "0" and "A", which reads as an
\* escape of the newline, was encoded with the percent sign escaped.
C24_Witness ==
    /\ applied.fn = "percent_encode"
    /\ applied.input = <<37, 48, 65>>
    /\ applied.output = <<37, 50, 53, 48, 65>>
    /\ percent_decode(applied.input) = <<10>>

\* C25: when the relocation fails, send_to_trash returns the error of the
\* relocation (of the failed copy or remove), also when the info file
\* cannot be removed.
C25_RelocationErrorReturned ==
    \A p \in Procs : MoveFailed(p) => ret[p] = Err(moveErr[p])

\* C25, what the code does: send_to_trash returns the error of the failed
\* copy or remove if it could remove the info file; if the removal fails,
\* it returns the removal's error in place of the relocation's, and the
\* info file stays.
C25_RemovalErrorHidesRelocationError ==
    \A p \in Procs :
        MoveFailed(p) =>
            /\ moveErr[p] \in {"Io:copy", "Io:remove"}
            /\ IF build_info_file_path(fileName[p]) \in DOMAIN info
               THEN ret[p] = Err("Io:remove_info")
               ELSE ret[p] = Err(moveErr[p])

\* C25, the case: the copy failed, the info file could not be removed, and
\* the removal's error was returned.
C25_RemovalErrorSeen ==
    \E p \in Procs :
        /\ MoveFailed(p)
        /\ moveErr[p] = "Io:copy"
        /\ ret[p] = Err("Io:remove_info")
        /\ InfoWritten(p)

\* The DeletionDate of the info file of the item the call of p trashed.
DeletionDate(p) == info[build_info_file_path(ret[p].name)].lines[3].date

\* C26: the deletion time is taken once, at the start of send_to_trash:
\* the DeletionDate of the info file is the rendering of that `now`, the
\* second that the ledger line of a trashed directory names, even if the
\* clock advances before the info file is written.
C26_DeletionDateIsNow ==
    \A p \in Procs :
        ReturnedOk(p) =>
            /\ build_info_file_path(ret[p].name) \in DOMAIN info
            /\ DeletionDate(p) = strftime(now[p])

\* C26, what the code does: the DeletionDate is the rendering of the clock
\* when format_timestamp is called, a second not before `now` and not after
\* the return.
C26_DeletionDateIsTimeOfWriting ==
    \A p \in Procs :
        ReturnedOk(p) =>
            /\ build_info_file_path(ret[p].name) \in DOMAIN info
            /\ \E t \in now[p]..clock : DeletionDate(p) = strftime(t)

\* C26, the case: a directory was trashed, its ledger line names the second
\* 0 and its info file the second 1.
C26_TwoInstants ==
    /\ ReturnedOk(1) /\ dirSize[1].some
    /\ now[1] = 0
    /\ ledger.exists
    /\ LastLine(ledger.data) = LedgerLine(dirSize[1].val, 0, ret[1].name)
    /\ DeletionDate(1) = strftime(1)

\* The steps of update_directory_sizes.
LedgerSteps == {"tmp_create", "tmp_copy", "tmp_append", "tmp_append_rest",
                "tmp_rename"}

\* The call of p is for a regular file.
ForRegularFile(p) == InitialNode(arg[p]).kind = "file"

\* C27: a call of send_to_trash for a regular file takes no step of the
\* ledger's update and leaves the ledger path as it was when the call
\* started, be it absent, a regular file or a directory; and when no system
\* call failed, the call does not return with the file still at its path:
\* the file is in the trash.
C27_FileLeavesLedgerAlone ==
    \A p \in Procs :
        ForRegularFile(p) =>
            /\ pc[p] \notin LedgerSteps
            /\ ledger = ledger0[p]
            /\ TmpName(p) \notin DOMAIN files
            /\ Returned(p) /\ ~faulted[p] =>
                  /\ origin[arg[p]].kind = "none"
                  /\ arg[p] \in succeeded

\* C27, the case: a regular file was trashed into a trash whose ledger path
\* is a directory, and it still is.
C27_Witness ==
    /\ ForRegularFile(1) /\ ReturnedOk(1)
    /\ ledger0[1] = DirLedger /\ ledger = DirLedger
    /\ \E n \in Trashed : Holds(n, arg[1])

\* The steps of send_to_trash before the relocation, after its first.
BeforeRelocation == {"exists", "create_info", "write_info", "sync_info"}

\* The errors of the steps before the relocation: of the clock, of
\* directory_size, of a path with no final component, of write_info_file.
EarlyErrors == {Err("SystemTime"), Err("Io:directory_size"),
                Err("FailedToObtainFileName"), Err("Io:create_info"),
                Err("Io:write_info"), Err("Io:sync_info")}

\* C28: a step of send_to_trash before the relocation changes neither the
\* sources nor files_dir nor the ledger, and when it fails the call returns
\* that step's error at once; so after a call that returned such an error
\* files_dir and the ledger are what they were when it started.
C28_EarlyFailureChangesNothing ==
    /\ [](\A p \in Procs :
            Returned(p) /\ ret[p] \in EarlyErrors =>
                /\ files = files0[p]
                /\ ledger = ledger0[p]
                /\ moveErr[p] = "none")
    /\ [][calls' # calls =>
            /\ origin' = origin /\ files' = files /\ ledger' = ledger
            /\ \/ \E p \in Procs : pc[p] = "idle" /\ pc'[p] = "exists"
               \/ \E p \in Procs : pc' = pc /\ ret'[p] \in EarlyErrors]_vars
    /\ [][\A p \in Procs :
            pc[p] \in BeforeRelocation =>
                /\ origin' = origin /\ files' = files /\ ledger' = ledger
                /\ pc'[p] \in BeforeRelocation \cup {"idle", "rename"}
                /\ pc'[p] = "idle" => ret'[p] \in EarlyErrors
                /\ faulted'[p] => pc'[p] = "idle"]_vars

\* C28, the case: after a directory was trashed, the call for a second one
\* failed writing its info file; the directory is at its path as it was.
C28_Witness ==
    /\ Returned(1) /\ ret[1] = Err("Io:write_info")
    /\ dirSize[1].some
    /\ files # <<>> /\ files = files0[1]
    /\ ledger.exists /\ ledger = ledger0[1]
    /\ origin[arg[1]] = InitialNode(arg[1])

\* C28, the case of a path with no final component: the call for the
\* filesystem root returned FailedToObtainFileName.
C28_RootRefused ==
    /\ Returned(1) /\ arg[1] = RootPath
    /\ ret[1] = Err("FailedToObtainFileName")

\* C29: when no mount point of the probed list contains the path, the error
\* of find_mount_point_of_file is of another kind than the error of a mount
\* table that could not be opened.
C29_NoOwnerIsItsOwnError ==
    found.kind = "err" => found.err # TableNotOpened.err

\* C29, what the code does: the lookup that finds no mount point returns
\* FailedToObtainMountPoints, the error of a table that could not be opened.
C29_NoOwnerIsFailedToObtainMountPoints ==
    /\ found.kind = "err" => found.err = "FailedToObtainMountPoints"
    /\ probed.kind = "err" => probed.err = "FailedToObtainMountPoints"

\* C29, the case: the table was probed, and no mount point of it contains
\* the path looked up.
C29_NoOwner ==
    /\ probed.kind = "ok"
    /\ found.kind = "err"
    /\ \A i \in 1..Len(probed.list) : ~contains(probed.list[i], found.path)

\* What `path` named at the start is still there.
AtOrigin(path) == Content(origin[path]) = Content(InitialNode(path))

\* C30: when one invocation runs at a time, at every state, between any two
\* system calls and after any failure, what each source held is whole at its
\* own path or whole in an entry of files_dir; and a step that takes a
\* source from its path is taken by a call for that path whose chosen name
\* in files_dir holds the whole of it after the step.
C30_NoDataLoss ==
    /\ [](\A path \in Paths : AtOrigin(path) \/ \E n \in Trashed : Holds(n, path))
    /\ [][\A path \in Paths :
            origin'[path] # origin[path] =>
                /\ AtOrigin(path)
                /\ origin'[path] = NoFile
                /\ \E p \in Procs :
                      /\ arg[p] = path
                      /\ pc[p] \in {"rename", "remove_src"}
                      /\ Content(Lookup(files', fileName[p]))
                            = Content(InitialNode(path))]_vars

\* C30, the case: rename failed and the copy failed after it had created
\* the destination; the entry of files_dir is an empty file and the source
\* is whole at its path.
C30_Witness ==
    /\ pc[1] = "rollback" /\ moveErr[1] = "Io:copy"
    /\ Lookup(files, fileName[1]).kind = "file"
    /\ Lookup(files, fileName[1]).data = <<>>
    /\ AtOrigin(arg[1]) /\ origin[arg[1]].data # <<>>

\* C30, the case of the fallback: the source was removed after the copy,
\* and the entry of files_dir made by the copy holds its bytes.
C30_CopiedThenRemoved ==
    /\ ReturnedOk(1) /\ faulted[1]
    /\ origin[arg[1]] = NoFile
    /\ Holds(ret[1].name, arg[1])

\* No call is running.
AllIdle == \A p \in Procs : pc[p] = "idle"

\* C31: of two concurrent calls into the same trash, the rollback of the
\* one whose relocation failed removes no info file of the other: when both
\* are over, the item of a call that returned Ok has its info file.
C31_RollbackSparesTheOther ==
    \A p, q \in Procs :
        ( /\ p # q /\ AllIdle
          /\ MoveFailed(p)
          /\ ReturnedOk(q) )
        => build_info_file_path(ret[q].name) \in DOMAIN info

\* C31, what the code does: the rollback removes the info file of the name
\* its call chose, whoever wrote it last; the item of the other call keeps
\* its info file when the two chose different names.
C31_RollbackSparesOtherNames ==
    \A p, q \in Procs :
        ( /\ p # q /\ AllIdle
          /\ MoveFailed(p)
          /\ ReturnedOk(q)
          /\ fileName[p] # fileName[q] )
        => build_info_file_path(ret[q].name) \in DOMAIN info

\* C31, the case: no system call failing by an I/O error, the file /a/x and
\* the directory /c/x were trashed at once and both chose the name x; the
\* file was renamed first, the directory could not be moved onto it, and its
\* rollback removed x.trashinfo: the file is in files_dir without info file.
C31_InfoOfTrashedFileRemoved ==
    /\ AllIdle /\ ~faulted[1] /\ ~faulted[2]
    /\ arg[1] = <<"c", NameX>> /\ arg[2] = <<"a", NameX>>
    /\ MoveFailed(1) /\ ReturnedOk(2)
    /\ Holds(NameX, arg[2])
    /\ info = <<>>

\* An info file of the directory `dir` names `path` as its original path.
InfoNames(dir, path) ==
    \E n \in DOMAIN dir :
        Len(dir[n].lines) >= 2 /\ dir[n].lines[2].path = path

\* The argument was not touched: it is at its path as it was, no trash
\* holds it and no info file was written for it.
Untouched(path) ==
    /\ AtOrigin(path)
    /\ ~InSomeTrash(path)
    /\ ~InfoNames(info, path)
    /\ \A k \in DOMAIN shelf : ~InfoNames(shelf[k].info, path)

\* The program ended by a failure, at the last of the arguments `given`.
StoppedByFailure == dpc = "done" /\ exit # 0

====
